---- MODULE Spec2Model ----
(***************************************************************************)
(* Model of the tg-spam detection engine (lib/detector.go): the Detector   *)
(* facade, its check pipeline, the corpus operations, the approved-user    *)
(* registry and the reader/writer lock that guards them.                   *)
(*                                                                         *)
(* Strings are sequences of code points; a code point is a one-element     *)
(* TLA+ string, and "<pizza>" stands for one emoji code point.             *)
(* Floating-point comparisons are modelled by exact integer arithmetic:    *)
(* thresholds and probabilities are integer percents.                      *)
(***************************************************************************)
EXTENDS Integers, Sequences, FiniteSets, TLC

(***************************************************************************)
(* Code points and the string functions of Go's strings package            *)
(***************************************************************************)

\* unicode.IsSpace for the code points used here
IsSpace(c) == c \in {" ", "\t", "\n", "\r"}

\* the emoji code points (cleanEmoji removes them, countEmoji counts them)
IsEmoji(c) == c \in {"<pizza>"}

\* unicode.ToLower for the code points used here
toLowerRune(c) ==
    CASE c = "W" -> "w"
      [] c = "B" -> "b"
      [] c = "T" -> "t"
      [] OTHER   -> c

\* strings.ToLower
ToLower(s) == [i \in 1..Len(s) |-> toLowerRune(s[i])]

\* strings.EqualFold (simple case folding)
EqualFold(a, b) == ToLower(a) = ToLower(b)

\* strings.HasPrefix
HasPrefix(s, p) == Len(s) >= Len(p) /\ SubSeq(s, 1, Len(p)) = p

\* strings.Contains
Contains(s, sub) ==
    \E i \in 1..(Len(s) - Len(sub) + 1) : SubSeq(s, i, i + Len(sub) - 1) = sub

\* index of the first code point of s not in cutset, Len(s)+1 if none
RECURSIVE firstKept(_, _, _)
firstKept(s, cutset, i) ==
    IF i > Len(s) THEN i
    ELSE IF s[i] \in cutset THEN firstKept(s, cutset, i + 1) ELSE i

\* index of the last code point of s not in cutset, 0 if none
RECURSIVE lastKept(_, _, _)
lastKept(s, cutset, i) ==
    IF i < 1 THEN 0
    ELSE IF s[i] \in cutset THEN lastKept(s, cutset, i - 1) ELSE i

\* strings.Trim(s, cutset): s without leading and trailing code points of cutset
Trim(s, cutset) ==
    LET a == firstKept(s, cutset, 1)
        b == lastKept(s, cutset, Len(s))
    IN  IF a > b THEN << >> ELSE SubSeq(s, a, b)

\* strings.TrimSuffix for a one-code-point suffix
TrimSuffix(s, c) ==
    IF Len(s) > 0 /\ s[Len(s)] = c THEN SubSeq(s, 1, Len(s) - 1) ELSE s

\* s split at every code point for which the code point is in seps; empty pieces kept
RECURSIVE splitAt(_, _, _, _)
splitAt(s, seps, i, cur) ==
    IF i > Len(s) THEN << cur >>
    ELSE IF s[i] \in seps THEN << cur >> \o splitAt(s, seps, i + 1, << >>)
    ELSE splitAt(s, seps, i + 1, Append(cur, s[i]))

\* strings.Split(s, sep) for a one-code-point separator
Split(s, sep) == splitAt(s, {sep}, 1, << >>)

\* strings.Fields: the maximal runs of non-space code points
Fields(s) ==
    SelectSeq(splitAt(s, {" ", "\t", "\n", "\r"}, 1, << >>), LAMBDA p : p # << >>)

\* bufio.Scanner with ScanLines: lines without their terminator, a trailing
\* carriage return dropped, no final empty line
ScanLines(s) ==
    LET raw   == splitAt(s, {"\n"}, 1, << >>)
        lines == IF raw[Len(raw)] = << >> THEN SubSeq(raw, 1, Len(raw) - 1) ELSE raw
    IN  [i \in 1..Len(lines) |-> TrimSuffix(lines[i], "\r")]

\* cleanEmoji: the string without its emoji code points
cleanEmoji(s) == SelectSeq(s, LAMBDA c : ~IsEmoji(c))

\* countEmoji: the number of emoji code points
countEmoji(s) == Len(SelectSeq(s, LAMBDA c : IsEmoji(c)))

\* concatenation of a sequence of sequences
RECURSIVE Flatten(_)
Flatten(ss) == IF ss = << >> THEN << >> ELSE Head(ss) \o Flatten(Tail(ss))

\* the elements of a sequence
Range(s) == {s[i] : i \in 1..Len(s)}

(***************************************************************************)
(* The detector's state                                                    *)
(***************************************************************************)

VARIABLES
    Config,          \* Detector.Config, as NewDetector leaves it
    openaiChecker,   \* TRUE iff an LLM checker is attached (d.openaiChecker != nil)
    classifier,      \* d.classifier
    tokenizedSpam,   \* d.tokenizedSpam: sequence of token-frequency maps
    approvedUsers,   \* d.approvedUsers: function from the stored ids to their counters
    stopWords,       \* d.stopWords
    excludedTokens,  \* d.excludedTokens
    spamSamplesUpd,  \* TRUE iff a spam SampleUpdater is set
    hamSamplesUpd,   \* TRUE iff a ham SampleUpdater is set
    last,            \* what the last completed operation was given and returned
    added,           \* the ids given to AddApprovedUsers and not removed, reloaded or reset since
    pc,              \* per goroutine: the operation it is in and where in it
    rw,              \* d.lock: the readers holding it and whether a writer holds it
    local,           \* per goroutine: Check's userID and the counter it read at line 174
    crashed,         \* TRUE once the Go runtime has ended the program with a fatal error
    tally            \* history: per user the ham verdicts of the Checks that ran the pipeline
                     \* since the entry was last absent, the users whose entry was stored by
                     \* AddApprovedUsers or LoadApprovedUsers, and the other users a Check for
                     \* whom has returned the pre-approved shortcut since the entry was last absent
VARIABLES
    autoSave         \* the application's autoSaveApprovedUsers goroutine: where it is, its
                     \* lastCount and ids, the tick pending on ticker.C, the cancellation
                     \* of its context and, as history, the outcomes of its last two ticks
                     \* and the number of ids of the last Store that succeeded

detector == << classifier, tokenizedSpam, approvedUsers, stopWords, excludedTokens >>
wiring   == << Config, openaiChecker, spamSamplesUpd, hamSamplesUpd, autoSave >>
conc     == << pc, rw, local, crashed, tally >>
vars     == << Config, openaiChecker, classifier, tokenizedSpam, approvedUsers,
               stopWords, excludedTokens, spamSamplesUpd, hamSamplesUpd, last, added,
               pc, rw, local, crashed, tally, autoSave >>

\* a Go map read: the zero value for a missing key
mapGet(m, k) == IF k \in DOMAIN m THEN m[k] ELSE 0

\* a Go map write
mapSet(m, k, v) == [j \in DOMAIN m \cup {k} |-> IF j = k THEN v ELSE m[j]]

\* a Go map delete
mapDelete(m, k) == [j \in DOMAIN m \ {k} |-> m[j]]

emptyMap == [j \in {} |-> 0]

(***************************************************************************)
(* Token stream and tokenizer                                              *)
(***************************************************************************)

\* the tokens one scanned line yields
lineTokens(line) ==
    IF Contains(line, << "," >>) /\ HasPrefix(line, << "\"" >>)
    THEN LET pieces == Split(line, ",")
             clean  == [i \in 1..Len(pieces) |->
                           Trim(pieces[i], {" ", "\"", "\n", "\r", "\t"})]
         IN  SelectSeq(clean, LAMBDA t : t # << >>)
    ELSE LET cleanToken == Trim(line, {" ", "\n", "\r", "\t"})
         IN  IF cleanToken # << >> THEN << cleanToken >> ELSE << >>

\* a reader whose tokens are lost when it fails
readerTokensLost(reader) ==
    LET lines == ScanLines(reader.data)
    IN  IF reader.err THEN << >>
        ELSE Flatten([i \in 1..Len(lines) |-> lineTokens(lines[i])])

\* the tokens of one reader: a reader is [data, err], data being what is read
\* before the stream ends or fails; a read error only ends that reader
readerTokens(reader) ==
    LET lines == ScanLines(reader.data)
    IN  Flatten([i \in 1..Len(lines) |-> lineTokens(lines[i])])

\* tokenChan: everything the channel delivers before it is closed, in order
tokenChan(readers) == Flatten([i \in 1..Len(readers) |-> readerTokens(readers[i])])

isExcludedToken(token, excl) == \E i \in 1..Len(excl) : EqualFold(token, excl[i])

\* tokenize that tests the length of a piece before cleaning it
tokenizeLengthFirst(inp, excl) ==
    LET tokens  == SelectSeq(Fields(inp),
                             LAMBDA t : ~isExcludedToken(t, excl) /\ Len(t) >= 3)
        kept    == [i \in 1..Len(tokens) |->
                       ToLower(Trim(cleanEmoji(tokens[i]),
                                    {".", ",", "!", "?", "-", ":", ";", "(", ")", "#"}))]
    IN  [t \in {ToLower(kept[i]) : i \in 1..Len(kept)} |->
            Cardinality({i \in 1..Len(kept) : ToLower(kept[i]) = t})]

\* tokenize with the given excluded tokens: token -> frequency
tokenizeWith(inp, excl) ==
    LET tokens  == SelectSeq(Fields(inp), LAMBDA t : ~isExcludedToken(t, excl))
        cleaned == [i \in 1..Len(tokens) |->
                       ToLower(Trim(cleanEmoji(tokens[i]),
                                    {".", ",", "!", "?", "-", ":", ";", "(", ")", "#"}))]
        kept    == SelectSeq(cleaned, LAMBDA t : Len(t) >= 3)
    IN  [t \in {ToLower(kept[i]) : i \in 1..Len(kept)} |->
            Cardinality({i \in 1..Len(kept) : ToLower(kept[i]) = t})]

tokenize(inp) == tokenizeWith(inp, excludedTokens)

(***************************************************************************)
(* Naive-Bayes classifier                                                  *)
(***************************************************************************)

Classes == {"spam", "ham"}

newClassifier ==
    [ nAllDocument |-> 0,
      docsPerClass |-> [c \in Classes |-> 0],
      tokenCount   |-> [c \in Classes |-> emptyMap],
      totalTokens  |-> [c \in Classes |-> 0],
      vocabulary   |-> {} ]

\* learn one document [spamClass, tokens], tokens a set of distinct tokens
learnDoc(cl, doc) ==
    [ nAllDocument |-> cl.nAllDocument + 1,
      docsPerClass |-> [cl.docsPerClass EXCEPT ![doc.spamClass] = @ + 1],
      tokenCount   |-> [cl.tokenCount EXCEPT ![doc.spamClass] =
                           [t \in DOMAIN @ \cup doc.tokens |->
                               mapGet(@, t) + (IF t \in doc.tokens THEN 1 ELSE 0)]],
      totalTokens  |-> [cl.totalTokens EXCEPT ![doc.spamClass] =
                           @ + Cardinality(doc.tokens)],
      vocabulary   |-> cl.vocabulary \cup doc.tokens ]

RECURSIVE learn(_, _)
learn(cl, docs) ==
    IF docs = << >> THEN cl ELSE learn(learnDoc(cl, Head(docs)), Tail(docs))

\* the product of the values of a function with a finite domain
RECURSIVE product(_)
product(f) ==
    IF DOMAIN f = {} THEN 1
    ELSE LET e == CHOOSE e \in DOMAIN f : TRUE
         IN  f[e] * product([j \in DOMAIN f \ {e} |-> f[j]])

RECURSIVE power(_, _)
power(b, n) == IF n = 0 THEN 1 ELSE b * power(b, n - 1)

\* the likelihood of class c for the tokens, as the fraction num/den:
\* docsPerClass[c]/totalDocs * prod_t (tokenCount[c][t]+1)/(totalTokens[c]+|vocabulary|)
scoreNum(cl, c, tokens) ==
    cl.docsPerClass[c] * product([t \in tokens |-> mapGet(cl.tokenCount[c], t) + 1])

scoreDen(cl, c, tokens) ==
    cl.nAllDocument
        * power(cl.totalTokens[c] + Cardinality(cl.vocabulary), Cardinality(tokens))

\* classify: [class, certain, ws, wh]; the probability of the class in percent
\* is 100 * max(ws, wh) / (ws + wh)
classify(cl, tokens) ==
    IF \E c \in Classes : cl.totalTokens[c] + Cardinality(cl.vocabulary) = 0
    THEN [class |-> "", certain |-> FALSE, ws |-> 0, wh |-> 0]
    ELSE LET ws == scoreNum(cl, "spam", tokens) * scoreDen(cl, "ham", tokens)
             wh == scoreNum(cl, "ham", tokens) * scoreDen(cl, "spam", tokens)
         IN  [ class   |-> IF ws > wh THEN "spam" ELSE "ham",
               certain |-> ws # wh,
               ws      |-> ws,
               wh      |-> wh ]

\* prob >= p, prob the probability of the classified class in percent
probAtLeast(r, p) ==
    LET best == IF r.ws > r.wh THEN r.ws ELSE r.wh
    IN  IF r.ws + r.wh = 0 THEN 0 >= p ELSE 100 * best >= p * (r.ws + r.wh)

(***************************************************************************)
(* The checks of the pipeline                                              *)
(***************************************************************************)

CheckResult(name, spam, details) == [Name |-> name, Spam |-> spam, Details |-> details]

\* isStopWord: the first stop word contained in the lowercased, emoji-free message
RECURSIVE stopWordFrom(_, _)
stopWordFrom(cleanMsg, i) ==
    IF i > Len(stopWords) THEN CheckResult("stopword", FALSE, << "not found" >>)
    ELSE IF Contains(cleanMsg, ToLower(stopWords[i]))
         THEN CheckResult("stopword", TRUE, stopWords[i])
         ELSE stopWordFrom(cleanMsg, i + 1)

isStopWord(msg) == stopWordFrom(cleanEmoji(ToLower(msg)), 1)

isManyEmojis(msg) ==
    LET count == countEmoji(msg)
    IN  CheckResult("emoji", count > Config.MaxAllowedEmoji,
                    << ToString(count), "/", ToString(Config.MaxAllowedEmoji) >>)

\* the sum of the values of a function with a finite domain
RECURSIVE sum(_)
sum(f) ==
    IF DOMAIN f = {} THEN 0
    ELSE LET e == CHOOSE e \in DOMAIN f : TRUE
         IN  f[e] + sum([j \in DOMAIN f \ {e} |-> f[j]])

\* cosineSimilarity, squared, as the fraction n/d (the similarity is never negative)
cosineSimilarity(a, b) ==
    IF DOMAIN a = {} \/ DOMAIN b = {} THEN [n |-> 0, d |-> 1]
    ELSE LET dotProduct == sum([k \in DOMAIN a |-> a[k] * mapGet(b, k)])
             normA      == sum([k \in DOMAIN a |-> a[k] * a[k]])
             normB      == sum([k \in DOMAIN b |-> b[k] * b[k]])
         IN  IF normA = 0 \/ normB = 0 THEN [n |-> 0, d |-> 1]
             ELSE [n |-> dotProduct * dotProduct, d |-> normA * normB]

\* similarity >= threshold, the threshold in percent
similarityAtLeast(sim, thresholdPct) ==
    10000 * sim.n >= thresholdPct * thresholdPct * sim.d

\* similarity x > similarity y
similarityGreater(x, y) == x.n * y.d > y.n * x.d

similarityDetails(max) ==
    << ToString(max.n), "/", ToString(max.d), "/", ToString(Config.SimilarityThreshold) >>

\* isSpamSimilarityHigh: stops at the first sample at or above the threshold
RECURSIVE similarityFrom(_, _, _)
similarityFrom(tokenizedMessage, i, maxSimilarity) ==
    IF i > Len(tokenizedSpam)
    THEN CheckResult("similarity", FALSE, similarityDetails(maxSimilarity))
    ELSE LET similarity == cosineSimilarity(tokenizedMessage, tokenizedSpam[i])
             newMax     == IF similarityGreater(similarity, maxSimilarity)
                           THEN similarity ELSE maxSimilarity
         IN  IF similarityAtLeast(similarity, Config.SimilarityThreshold)
             THEN CheckResult("similarity", TRUE, similarityDetails(newMax))
             ELSE similarityFrom(tokenizedMessage, i + 1, newMax)

isSpamSimilarityHigh(msg) == similarityFrom(tokenize(msg), 1, [n |-> 0, d |-> 1])

isSpamClassified(msg) ==
    LET r      == classify(classifier, DOMAIN tokenize(msg))
        isSpam == /\ r.class = "spam"
                  /\ r.certain
                  /\ (Config.MinSpamProbability = 0
                        \/ probAtLeast(r, Config.MinSpamProbability))
    IN  CheckResult("classifier", isSpam,
                    << "probability of ", r.class, ToString(r.ws), ToString(r.wh) >>)

\* strconv.ParseInt(id, 10, 64) succeeds: an optional sign and at least one digit
\* (ids here are too short to overflow 64 bits)
isInt64(id) ==
    LET digits == IF Len(id) > 0 /\ id[1] \in {"+", "-"} THEN Tail(id) ELSE id
    IN  /\ Len(digits) > 0
        /\ \A i \in 1..Len(digits) : digits[i] \in {"0", "1", "7", "9"}

\* what the CAS request can come to: the request cannot be built, the client
\* fails, the body is no JSON, or a decoded answer {ok, description}
CasOutcomes ==
    { [kind |-> "badRequest", OK |-> FALSE, Description |-> << >>],
      [kind |-> "transport",  OK |-> FALSE, Description |-> << >>],
      [kind |-> "badJSON",    OK |-> FALSE, Description |-> << >>],
      [kind |-> "decoded",    OK |-> TRUE,  Description |-> << "B", "a", "n", "." >>],
      [kind |-> "decoded",    OK |-> FALSE, Description |-> << >>] }

NoCall == [kind |-> "none", OK |-> FALSE, Description |-> << >>]

\* isCasSpam that takes a user for a spammer when the client fails
isCasSpamFailClosed(msgID, cas) ==
    IF ~isInt64(msgID)
    THEN CheckResult("cas", FALSE, << "invalid user id" >>)
    ELSE IF cas.kind = "badRequest"
    THEN CheckResult("cas", FALSE, << "failed to make request" >>)
    ELSE IF cas.kind = "transport"
    THEN CheckResult("cas", TRUE, << "ffailed to send request" >>)
    ELSE IF cas.kind = "badJSON"
    THEN CheckResult("cas", FALSE, << "failed to parse response" >>)
    ELSE LET Description == TrimSuffix(ToLower(cas.Description), ".")
         IN  IF cas.OK THEN CheckResult("cas", TRUE, Description)
             ELSE CheckResult("cas", FALSE,
                              IF Description = << >> THEN << "not found" >>
                              ELSE Description)

\* isCasSpam, cas being what the request comes to when it is made
isCasSpam(msgID, cas) ==
    IF ~isInt64(msgID)
    THEN CheckResult("cas", FALSE, << "invalid user id" >>)
    ELSE IF cas.kind = "badRequest"
    THEN CheckResult("cas", FALSE, << "failed to make request" >>)
    ELSE IF cas.kind = "transport"
    THEN CheckResult("cas", FALSE, << "ffailed to send request" >>)
    ELSE IF cas.kind = "badJSON"
    THEN CheckResult("cas", FALSE, << "failed to parse response" >>)
    ELSE LET Description == TrimSuffix(ToLower(cas.Description), ".")
         IN  IF cas.OK THEN CheckResult("cas", TRUE, Description)
             ELSE CheckResult("cas", FALSE,
                              IF Description = << >> THEN << "not found" >>
                              ELSE Description)

\* what the LLM checker's check(msg) can return: a verdict, or an error, which
\* comes back as (false, result with Spam = false and the error as details)
LLMOutcomes == {"spam", "ham", "error"}

openaiCheck(llm) ==
    [ spam    |-> llm = "spam",
      details |-> CheckResult("openai", llm = "spam",
                              IF llm = "error" THEN << "OpenAI error" >>
                              ELSE << "response" >>) ]

(***************************************************************************)
(* Detector.Check                                                          *)
(***************************************************************************)

\* the verdict taken from the last result alone
isSpamDetectedLast(cr) == cr # << >> /\ cr[Len(cr)].Spam

isSpamDetected(cr) == \E i \in 1..Len(cr) : cr[i].Spam

\* the shortcut taken one message late
preApprovedLate(userID) ==
    Config.FirstMessageOnly /\ mapGet(approvedUsers, userID) > Config.FirstMessagesCount + 1

\* the shortcut taken once the counter has reached FirstMessagesCount
preApprovedAtCount(userID) ==
    Config.FirstMessageOnly /\ mapGet(approvedUsers, userID) >= Config.FirstMessagesCount

\* the pre-approval shortcut's condition
preApproved(userID) ==
    Config.FirstMessageOnly /\ mapGet(approvedUsers, userID) > Config.FirstMessagesCount

\* the emoji check made before the stop-word check
simpleChecksSwapped(msg) ==
    (IF Config.MaxAllowedEmoji >= 0 THEN << isManyEmojis(msg) >> ELSE << >>)
        \o (IF Len(stopWords) > 0 THEN << isStopWord(msg) >> ELSE << >>)

\* the results of the checks made before the length gate
simpleChecks(msg) ==
    (IF Len(stopWords) > 0 THEN << isStopWord(msg) >> ELSE << >>)
        \o (IF Config.MaxAllowedEmoji >= 0 THEN << isManyEmojis(msg) >> ELSE << >>)

\* the length of the UTF-8 encoding (an emoji takes four bytes)
byteLen(s) == Len(s) + 3 * countEmoji(s)

\* the length gate counting bytes instead of code points
tooShortBytes(msg) == byteLen(msg) < Config.MinMsgLen

\* the length gate's condition
tooShort(msg) == Len(msg) < Config.MinMsgLen

similarityEnabled == Config.SimilarityThreshold > 0 /\ Len(tokenizedSpam) > 0

\* the classifier asked whether trained or not
classifierAsked == TRUE

classifierLoaded == classifier.nAllDocument > 0

casEnabled == Config.CasAPI # ""

\* the LLM checker called on every message, first-message mode or not
openaiWantedAnyMode(spamDetected) ==
    /\ openaiChecker
    /\ ((~spamDetected /\ ~Config.OpenAIVeto) \/ (spamDetected /\ Config.OpenAIVeto))

\* the condition under which the LLM checker is called, spamDetected being the
\* verdict of the checks before it
openaiWanted(spamDetected) ==
    /\ openaiChecker
    /\ (Config.FirstMessageOnly \/ Config.FirstMessagesCount > 0)
    /\ ((~spamDetected /\ ~Config.OpenAIVeto) \/ (spamDetected /\ Config.OpenAIVeto))

\* the LLM checker's verdict taken for its opposite
openaiVerdictNegated(spamDetected, answer) == ~answer.spam

\* the LLM checker only able to add a spam verdict
openaiVerdictOr(spamDetected, answer) == spamDetected \/ answer.spam

\* the verdict after the LLM checker was called
openaiVerdict(spamDetected, answer) == answer.spam

\* the condition under which a ham verdict bumps the user's counter
countsMessages == Config.FirstMessageOnly \/ Config.FirstMessagesCount > 0

\* the counter bumped whatever the verdict
bumpWantedAnyVerdict(final) == countsMessages

\* the counter is bumped at the end of a run whose verdict is final
bumpWanted(final) == ~final /\ countsMessages

\* The part of a run of Check that calls no collaborator: the pre-approval
\* shortcut, the stop-word and emoji checks, the length gate, the similarity
\* check and the classifier.
localRun(msg, userID) ==
    IF preApproved(userID)
    THEN [ stage |-> "pre-approved",
           cr |-> << CheckResult("pre-approved", FALSE, << "user already approved" >>) >>,
           invoked |-> {} ]
    ELSE
    LET cr1      == simpleChecks(msg)
        invoked1 == (IF Len(stopWords) > 0 THEN {"isStopWord"} ELSE {})
                       \cup (IF Config.MaxAllowedEmoji >= 0 THEN {"isManyEmojis"} ELSE {})
    IN  IF tooShort(msg)
        THEN [ stage |-> "too short",
               cr |-> Append(cr1, CheckResult("message length", FALSE, << "too short" >>)),
               invoked |-> invoked1 ]
        ELSE [ stage |-> "checked",
               cr |-> cr1
                        \o (IF similarityEnabled THEN << isSpamSimilarityHigh(msg) >>
                            ELSE << >>)
                        \o (IF classifierLoaded THEN << isSpamClassified(msg) >> ELSE << >>),
               invoked |-> invoked1
                        \cup (IF similarityEnabled THEN {"isSpamSimilarityHigh"} ELSE {})
                        \cup (IF classifierLoaded THEN {"isSpamClassified"} ELSE {}) ]

\* the CAS request is sent in the run that continues l
casRequested(l, userID) == l.stage = "checked" /\ casEnabled /\ isInt64(userID)

\* the run l continued by the CAS check
casRun(l, userID, cas) ==
    IF l.stage = "checked" /\ casEnabled
    THEN [l EXCEPT !.cr = Append(@, isCasSpam(userID, cas)),
                   !.invoked = @ \cup {"isCasSpam"}]
    ELSE l

\* the LLM checker is called in the run that continues l, the CAS check made
openaiAsked(l) == l.stage = "checked" /\ openaiWanted(isSpamDetected(l.cr))

\* The end of a run of Check: the LLM checker if wanted, the verdict and whether
\* the user's counter is bumped. verdictBefore is the verdict of the checks made
\* before the LLM checker.
finishRun(l, llm) ==
    IF l.stage = "pre-approved"
    THEN [ spam |-> FALSE, cr |-> l.cr, invoked |-> l.invoked, stage |-> l.stage,
           verdictBefore |-> FALSE, bump |-> FALSE ]
    ELSE IF l.stage = "too short"
    THEN [ spam |-> isSpamDetected(l.cr), cr |-> l.cr, invoked |-> l.invoked,
           stage |-> l.stage, verdictBefore |-> isSpamDetected(l.cr), bump |-> FALSE ]
    ELSE
    LET spamDetected == isSpamDetected(l.cr)
        asked        == openaiWanted(spamDetected)
        answer       == openaiCheck(llm)
        final        == IF asked THEN openaiVerdict(spamDetected, answer) ELSE spamDetected
    IN  [ spam          |-> final,
          cr            |-> IF asked THEN Append(l.cr, answer.details) ELSE l.cr,
          invoked       |-> l.invoked \cup (IF asked THEN {"openaiChecker.check"} ELSE {}),
          stage         |-> l.stage,
          verdictBefore |-> spamDetected,
          bump          |-> bumpWanted(final) ]

\* one run of Check on the current state, cas and llm being what the
\* collaborators answer if they are called
checkRun(msg, userID, cas, llm) == finishRun(casRun(localRun(msg, userID), userID, cas), llm)

\* d.approvedUsers[userID]++
increment(m, userID) == mapSet(m, userID, mapGet(m, userID) + 1)

(***************************************************************************)
(* The operations that change the corpus and the approved users            *)
(***************************************************************************)

\* Reset that keeps the approved users
resetKeepsApprovedUsers ==
    /\ tokenizedSpam' = << >>
    /\ excludedTokens' = << >>
    /\ classifier' = newClassifier
    /\ stopWords' = << >>
    /\ UNCHANGED approvedUsers

\* Reset that keeps the classifier
resetKeepsClassifier ==
    /\ tokenizedSpam' = << >>
    /\ excludedTokens' = << >>
    /\ UNCHANGED classifier
    /\ approvedUsers' = emptyMap
    /\ stopWords' = << >>

\* Reset
resetState ==
    /\ tokenizedSpam' = << >>
    /\ excludedTokens' = << >>
    /\ classifier' = newClassifier
    /\ approvedUsers' = emptyMap
    /\ stopWords' = << >>

\* the counter stored without the +1
approvedCountNoSkip == Config.FirstMessagesCount

\* the counter AddApprovedUsers and LoadApprovedUsers store
approvedCount == Config.FirstMessagesCount + 1

\* AddApprovedUsers' loop
RECURSIVE addAll(_, _)
addAll(m, ids) ==
    IF ids = << >> THEN m ELSE addAll(mapSet(m, Head(ids), approvedCount), Tail(ids))

\* RemoveApprovedUsers' loop
RECURSIVE removeAll(_, _)
removeAll(m, ids) ==
    IF ids = << >> THEN m ELSE removeAll(mapDelete(m, Head(ids)), Tail(ids))

\* the document LoadSamples and updateSample make of one token of the stream
document(sc, token, excl) == [spamClass |-> sc, tokens |-> DOMAIN tokenizeWith(token, excl)]

\* LoadSamples without the reset of lines 221-223: the samples are added to the
\* ones already held
loadSamplesNoReset(exclReader, spamReaders, hamReaders) ==
    LET exclTokens == tokenChan(<< exclReader >>)
        excl       == excludedTokens \o [i \in 1..Len(exclTokens) |-> ToLower(exclTokens[i])]
        spamTokens == tokenChan(spamReaders)
        hamTokens  == tokenChan(hamReaders)
        docs       == [i \in 1..Len(spamTokens) |-> document("spam", spamTokens[i], excl)]
                        \o [i \in 1..Len(hamTokens) |-> document("ham", hamTokens[i], excl)]
    IN  [ excludedTokens |-> excl,
          tokenizedSpam  |-> tokenizedSpam
                               \o [i \in 1..Len(spamTokens) |-> tokenizeWith(spamTokens[i], excl)],
          classifier     |-> learn(classifier, docs),
          lr             |-> [ ExcludedTokens |-> Len(excl),
                               SpamSamples    |-> Len(spamTokens),
                               HamSamples     |-> Len(hamTokens),
                               StopWords      |-> 0 ] ]

\* LoadSamples: the new excluded tokens, spam samples and classifier, and the LoadResult
loadSamples(exclReader, spamReaders, hamReaders) ==
    LET exclTokens == tokenChan(<< exclReader >>)
        excl       == [i \in 1..Len(exclTokens) |-> ToLower(exclTokens[i])]
        spamTokens == tokenChan(spamReaders)
        hamTokens  == tokenChan(hamReaders)
        docs       == [i \in 1..Len(spamTokens) |-> document("spam", spamTokens[i], excl)]
                        \o [i \in 1..Len(hamTokens) |-> document("ham", hamTokens[i], excl)]
    IN  [ excludedTokens |-> excl,
          tokenizedSpam  |-> [i \in 1..Len(spamTokens) |-> tokenizeWith(spamTokens[i], excl)],
          classifier     |-> learn(newClassifier, docs),
          lr             |-> [ ExcludedTokens |-> Len(excl),
                               SpamSamples    |-> Len(spamTokens),
                               HamSamples     |-> Len(hamTokens),
                               StopWords      |-> 0 ] ]

\* LoadStopWords: the new stop words
loadStopWords(readers) ==
    LET tokens == tokenChan(readers)
    IN  [i \in 1..Len(tokens) |-> ToLower(tokens[i])]

\* LoadApprovedUsers: the new map and the count returned
loadApprovedUsers(r) ==
    LET ids == SelectSeq(ScanLines(r.data), LAMBDA userID : userID # << >>)
    IN  [ approvedUsers |-> addAll(emptyMap, ids), count |-> Len(ids) ]

\* updateSample that learns the whole message as one document, whatever the
\* token stream makes of it
updateLearnOneDocument(msg, sc) ==
    learn(classifier, << document(sc, msg, excludedTokens) >>)

\* updateSample after a successful Append: the classifier after learning the
\* documents the token stream makes of msg
updateLearn(msg, sc) ==
    LET tokens == tokenChan(<< [data |-> msg, err |-> FALSE] >>)
    IN  learn(classifier,
              [i \in 1..Len(tokens) |-> document(sc, tokens[i], excludedTokens)])

(***************************************************************************)
(* Inputs                                                                  *)
(***************************************************************************)

\* the largest FirstMessagesCount configured
MaxFirstMessagesCount == 1

\* no update is made once the classifier holds this many documents
MaxDocs == 3

Users == { << "7" >>, << "b", "o", "b" >> }

IdLists == { << u >> : u \in Users } \cup { << << "7" >>, << "b", "o", "b" >> >> }

Msgs ==
    { << >>,
      << "W", "i", "n" >>,
      << "<pizza>", "<pizza>" >>,
      << "w", "i", "n", " ", "<pizza>", "<pizza>" >>,
      << "W", "i", "n", " ", "b", "i", "g", "!" >>,
      << "t", "e", "a", " ", "b", "i", "t" >> }

reader(data) == [data |-> data, err |-> FALSE]

failing(data) == [data |-> data, err |-> TRUE]

\* what LoadSamples is given: the excluded-tokens reader, the spam readers, the ham readers
SampleSets ==
    { [ excl |-> reader(<< >>), spam |-> << >>, ham |-> << >> ],
      [ excl |-> reader(<< >>),
        spam |-> << reader(<< "w", "i", "n", " ", "b", "i", "g", "\n" >>) >>,
        ham  |-> << reader(<< "t", "e", "a", " ", "b", "i", "t", "\n" >>) >> ],
      [ excl |-> reader(<< "B", "i", "g", "\n" >>),
        spam |-> << failing(<< "w", "i", "n", " ", "b", "i", "g", "\n" >>),
                    reader(<< "\"", "t", "e", "a", ",", " ", "w", "i", "n", "\"", "\n" >>) >>,
        ham  |-> << reader(<< "t", "e", "a", " ", "b", "i", "t", "\n" >>) >> ] }

StopWordReaderLists ==
    { << >>,
      << reader(<< "W", "i", "n", "\n" >>) >>,
      << failing(<< "W", "i", "n" >>), reader(<< "t", "e", "a", "\n" >>) >> }

UserReaders == { reader(<< >>), reader(<< "7", "\n" >>), failing(<< "7", "\n", "\n", "b", "o", "b" >>) }

UpdateMsgs == { << "W", "i", "n", " ", "b", "i", "g", "!" >> }

\* strings given to tokenize: the messages, and pieces with punctuation, emoji,
\* capitals and repetitions
TokenInputs ==
    Msgs \cup
    { << "B", "i", "g", "!", " ", "b", "i", "g", ",", " ", "B", "I", "G", " ", "t", "e", "a" >>,
      << "o", "k", "!", " ", "(", "t", "e", "a", ")", "<pizza>", " ", "t", "e", "a" >> }

\* the messages given to UpdateSpam and UpdateHam where only the corpus is
\* followed: also an empty message and a quoted line with a comma
SampleMsgs ==
    UpdateMsgs \cup { << >>, << "\"", "t", "e", "a", ",", " ", "w", "i", "n", "\"" >> }

\* the settings of the checks: every optional check on, some on, every one off
Profiles ==
    { [ SimilarityThreshold |-> 50, MinMsgLen |-> 5, MaxAllowedEmoji |-> 1,
        CasAPI |-> "https://api.cas.chat", MinSpamProbability |-> 50 ],
      [ SimilarityThreshold |-> 100, MinMsgLen |-> 5, MaxAllowedEmoji |-> -1,
        CasAPI |-> "https://api.cas.chat", MinSpamProbability |-> 90 ],
      [ SimilarityThreshold |-> 0, MinMsgLen |-> 0, MaxAllowedEmoji |-> -1,
        CasAPI |-> "", MinSpamProbability |-> 0 ] }

Configs ==
    { [ SimilarityThreshold |-> p.SimilarityThreshold,
        MinMsgLen           |-> p.MinMsgLen,
        MaxAllowedEmoji     |-> p.MaxAllowedEmoji,
        CasAPI              |-> p.CasAPI,
        FirstMessageOnly    |-> f,
        FirstMessagesCount  |-> n,
        MinSpamProbability  |-> p.MinSpamProbability,
        OpenAIVeto          |-> v ] :
      p \in Profiles, f \in BOOLEAN, n \in 0..MaxFirstMessagesCount, v \in BOOLEAN }

\* NewDetector: a positive FirstMessagesCount forces FirstMessageOnly
NewDetector(p) ==
    [p EXCEPT !.FirstMessageOnly = IF p.FirstMessagesCount > 0 THEN TRUE ELSE @]

\* the options the application builds its detector from
Options ==
    { [ Profile |-> p, ParanoidMode |-> m, FirstMessagesCount |-> n, Veto |-> v ] :
      p \in Profiles, m \in BOOLEAN, n \in 0..MaxFirstMessagesCount, v \in BOOLEAN }

\* makeDetector whose paranoid mode leaves FirstMessagesCount as given
makeDetectorKeepsCount(opts) ==
    NewDetector(
        [ SimilarityThreshold |-> opts.Profile.SimilarityThreshold,
          MinMsgLen           |-> opts.Profile.MinMsgLen,
          MaxAllowedEmoji     |-> opts.Profile.MaxAllowedEmoji,
          CasAPI              |-> opts.Profile.CasAPI,
          FirstMessageOnly    |-> IF opts.ParanoidMode THEN FALSE
                                  ELSE IF opts.FirstMessagesCount > 0 THEN TRUE
                                  ELSE ~opts.ParanoidMode,
          FirstMessagesCount  |-> opts.FirstMessagesCount,
          MinSpamProbability  |-> opts.Profile.MinSpamProbability,
          OpenAIVeto          |-> opts.Veto ])

\* makeDetector: the Config of the detector the application makes from its options
makeDetector(opts) ==
    NewDetector(
        [ SimilarityThreshold |-> opts.Profile.SimilarityThreshold,
          MinMsgLen           |-> opts.Profile.MinMsgLen,
          MaxAllowedEmoji     |-> opts.Profile.MaxAllowedEmoji,
          CasAPI              |-> opts.Profile.CasAPI,
          FirstMessageOnly    |-> IF opts.ParanoidMode THEN FALSE
                                  ELSE IF opts.FirstMessagesCount > 0 THEN TRUE
                                  ELSE ~opts.ParanoidMode,
          FirstMessagesCount  |-> IF opts.ParanoidMode THEN 0 ELSE opts.FirstMessagesCount,
          MinSpamProbability  |-> opts.Profile.MinSpamProbability,
          OpenAIVeto          |-> opts.Veto ])

(***************************************************************************)
(* The operations, each run as a whole (callers one at a time)             *)
(***************************************************************************)

\* no call is being answered: the caller has taken the last result
\* the goroutines calling the detector
Procs == { "g1", "g2" }

\* a goroutine outside every operation
notCalling == [op |-> "none", at |-> "idle"]

\* d.lock held by nobody
unlocked == [readerCount |-> 0, writer |-> FALSE]

\* Check's locals before it has set them
noLocal == [userID |-> << >>, counter |-> 0]

\* no ham verdict counted, no entry stored by AddApprovedUsers or LoadApprovedUsers,
\* no shortcut taken
noTally == [hams |-> [u \in Users |-> 0], given |-> {}, passed |-> {}]

\* autoSaveApprovedUsers as a goroutine at the given place: lastCount is 0, no tick
\* is pending and the context is not cancelled
saver(at) ==
    [ at |-> at, lastCount |-> 0, ids |-> {}, tick |-> FALSE, cancelled |-> FALSE,
      out |-> "none", prev |-> "none", saved |-> 0 ]

\* the application has not started the goroutine
notStarted == saver("off")

idle == last.op = "none"

\* the record of an operation that returns nothing about a message
done(op) ==
    [ op |-> op, msg |-> << >>, userID |-> << >>, ids |-> << >>, spam |-> FALSE,
      cr |-> << >>, invoked |-> {}, verdictBefore |-> FALSE, llm |-> "none",
      count |-> 0, ret |-> << >>, err |-> FALSE, input |-> << >>, cas |-> NoCall ]

Init ==
    /\ Config \in { NewDetector(p) : p \in Configs }
    /\ openaiChecker \in BOOLEAN
    /\ spamSamplesUpd = TRUE
    /\ hamSamplesUpd = FALSE
    /\ classifier = newClassifier
    /\ tokenizedSpam = << >>
    /\ approvedUsers = emptyMap
    /\ stopWords = << >>
    /\ excludedTokens = << >>
    /\ last = [ op |-> "none", msg |-> << >>, userID |-> << >>, ids |-> << >>,
                spam |-> FALSE, cr |-> << >>, invoked |-> {}, verdictBefore |-> FALSE,
                llm |-> "none", count |-> 0, ret |-> << >>, err |-> FALSE,
                input |-> << >>, cas |-> NoCall ]
    /\ added = {}
    /\ pc = [p \in Procs |-> notCalling]
    /\ rw = unlocked
    /\ local = [p \in Procs |-> noLocal]
    /\ crashed = FALSE
    /\ tally = noTally
    /\ autoSave = notStarted

\* Check, l being its run up to the CAS check
CheckOp(msg, userID, l, cas, llm) ==
    LET r == finishRun(casRun(l, userID, cas), llm)
    IN  /\ approvedUsers' = IF r.bump THEN increment(approvedUsers, userID)
                            ELSE approvedUsers
        /\ last' = [done("Check") EXCEPT !.msg = msg, !.userID = userID,
                        !.spam = r.spam, !.cr = r.cr, !.invoked = r.invoked,
                        !.verdictBefore = r.verdictBefore, !.llm = llm,
                        !.count = mapGet(approvedUsers, userID), !.cas = cas]
        /\ UNCHANGED << classifier, tokenizedSpam, stopWords, excludedTokens, wiring, added, conc >>

Check ==
    /\ idle
    /\ \E msg \in Msgs, userID \in Users :
           LET l == localRun(msg, userID)
           IN  \E cas \in (IF casRequested(l, userID) THEN CasOutcomes ELSE {NoCall}) :
                   \E llm \in (IF openaiAsked(casRun(l, userID, cas))
                               THEN LLMOutcomes ELSE {"none"}) :
                       CheckOp(msg, userID, l, cas, llm)

Reset ==
    /\ idle
    /\ resetState
    /\ last' = done("Reset")
    /\ added' = {}
    /\ UNCHANGED << wiring, conc >>

AddApprovedUsers ==
    /\ idle
    /\ \E ids \in IdLists :
           /\ approvedUsers' = addAll(approvedUsers, ids)
           /\ last' = [done("AddApprovedUsers") EXCEPT !.ids = ids]
           /\ added' = added \cup Range(ids)
           /\ UNCHANGED << classifier, tokenizedSpam, stopWords, excludedTokens, wiring, conc >>

RemoveApprovedUsers ==
    /\ idle
    /\ \E ids \in IdLists :
           /\ approvedUsers' = removeAll(approvedUsers, ids)
           /\ last' = [done("RemoveApprovedUsers") EXCEPT !.ids = ids]
           /\ added' = added \ Range(ids)
           /\ UNCHANGED << classifier, tokenizedSpam, stopWords, excludedTokens, wiring, conc >>

\* LoadSamples that resets the approved users along with the corpus, as Reset does
LoadSamplesResetsUsers ==
    /\ idle
    /\ \E in \in SampleSets :
           LET r == loadSamples(in.excl, in.spam, in.ham)
           IN  /\ excludedTokens' = r.excludedTokens
               /\ tokenizedSpam' = r.tokenizedSpam
               /\ classifier' = r.classifier
               /\ approvedUsers' = emptyMap
               /\ last' = [done("LoadSamples") EXCEPT !.ret = r.lr, !.input = in]
               /\ UNCHANGED << stopWords, wiring, added, conc >>

LoadSamples ==
    /\ idle
    /\ \E in \in SampleSets :
           LET r == loadSamples(in.excl, in.spam, in.ham)
           IN  /\ excludedTokens' = r.excludedTokens
               /\ tokenizedSpam' = r.tokenizedSpam
               /\ classifier' = r.classifier
               /\ last' = [done("LoadSamples") EXCEPT !.ret = r.lr, !.input = in]
               /\ UNCHANGED << approvedUsers, stopWords, wiring, added, conc >>

LoadStopWords ==
    /\ idle
    /\ \E readers \in StopWordReaderLists :
           /\ stopWords' = loadStopWords(readers)
           /\ last' = [done("LoadStopWords") EXCEPT
                           !.ret = [ ExcludedTokens |-> 0, SpamSamples |-> 0,
                                     HamSamples |-> 0, StopWords |-> Len(stopWords') ],
                           !.input = readers]
           /\ UNCHANGED << classifier, tokenizedSpam, approvedUsers, excludedTokens, wiring, added, conc >>

LoadApprovedUsers ==
    /\ idle
    /\ \E r \in UserReaders :
           LET res == loadApprovedUsers(r)
           IN  /\ approvedUsers' = res.approvedUsers
               /\ last' = [done("LoadApprovedUsers") EXCEPT !.ret = res.count,
                               !.err = r.err]
               /\ added' = {}
               /\ UNCHANGED << classifier, tokenizedSpam, stopWords, excludedTokens, wiring, conc >>

\* what the similarity step of Check makes of a message: no result when the check
\* is off, else the result of isSpamSimilarityHigh
similarityOf(msg) ==
    IF similarityEnabled THEN << isSpamSimilarityHigh(msg) >> ELSE << >>

\* the similarity results of the messages, as an update finds them
similarityBefore == [m \in Msgs |-> similarityOf(m)]

\* updateSample that learns before it appends: a failed Append leaves the
\* classifier updated
updateSampleLearnFirst(op, msg, upd, sc, appendFails) ==
    IF ~upd
    THEN /\ last' = done(op)
         /\ UNCHANGED << detector, wiring, added, conc >>
    ELSE /\ classifier' = updateLearn(msg, sc)
         /\ last' = [done(op) EXCEPT !.msg = msg, !.err = appendFails]
         /\ UNCHANGED << tokenizedSpam, approvedUsers, stopWords, excludedTokens, wiring,
                         added, conc >>

\* updateSample that also adds the message to the spam samples of the similarity check
updateSampleAddsSample(op, msg, upd, sc, appendFails) ==
    IF ~upd
    THEN /\ last' = done(op)
         /\ UNCHANGED << detector, wiring, added, conc >>
    ELSE IF appendFails
    THEN /\ last' = [done(op) EXCEPT !.msg = msg, !.err = TRUE]
         /\ UNCHANGED << detector, wiring, added, conc >>
    ELSE /\ classifier' = updateLearn(msg, sc)
         /\ tokenizedSpam' = IF sc = "spam" THEN Append(tokenizedSpam, tokenize(msg))
                              ELSE tokenizedSpam
         /\ last' = [done(op) EXCEPT !.msg = msg, !.input = similarityBefore]
         /\ UNCHANGED << approvedUsers, stopWords, excludedTokens, wiring, added, conc >>

\* updateSample(msg, upd, sc), appendFails telling whether upd.Append(msg) fails
updateSample(op, msg, upd, sc, appendFails) ==
    IF ~upd
    THEN /\ last' = done(op)
         /\ UNCHANGED << detector, wiring, added, conc >>
    ELSE IF appendFails
    THEN /\ last' = [done(op) EXCEPT !.msg = msg, !.err = TRUE]
         /\ UNCHANGED << detector, wiring, added, conc >>
    ELSE /\ classifier' = updateLearn(msg, sc)
         /\ last' = [done(op) EXCEPT !.msg = msg, !.input = similarityBefore]
         /\ UNCHANGED << tokenizedSpam, approvedUsers, stopWords, excludedTokens, wiring, added, conc >>

UpdateSpam ==
    /\ idle
    /\ classifier.nAllDocument < MaxDocs
    /\ \E msg \in UpdateMsgs :
           \E appendFails \in (IF spamSamplesUpd THEN BOOLEAN ELSE {FALSE}) :
               updateSample("UpdateSpam", msg, spamSamplesUpd, "spam", appendFails)

UpdateHam ==
    /\ idle
    /\ classifier.nAllDocument < MaxDocs
    /\ \E msg \in UpdateMsgs :
           \E appendFails \in (IF hamSamplesUpd THEN BOOLEAN ELSE {FALSE}) :
               updateSample("UpdateHam", msg, hamSamplesUpd, "ham", appendFails)

\* ApprovedUsers: the stored ids, in no particular order
ApprovedUsers ==
    /\ idle
    /\ last' = [done("ApprovedUsers") EXCEPT !.ret = DOMAIN approvedUsers]
    /\ UNCHANGED << detector, wiring, added, conc >>

\* the caller takes the result of the call it made
Return ==
    /\ ~idle
    /\ last' = done("none")
    /\ UNCHANGED << detector, wiring, added, conc >>

Next ==
    \/ Check
    \/ Reset
    \/ AddApprovedUsers
    \/ RemoveApprovedUsers
    \/ LoadSamples
    \/ LoadStopWords
    \/ LoadApprovedUsers
    \/ UpdateSpam
    \/ UpdateHam
    \/ ApprovedUsers
    \/ Return

Spec == Init /\ [][Next]_vars

(***************************************************************************)
(* Properties of Check (specification Spec)                                *)
(***************************************************************************)

checked == last.op = "Check"

\* the names of the results Check returned
names == [i \in 1..Len(last.cr) |-> last.cr[i].Name]

\* Check returned the pre-approval shortcut and called no check
shortcutTaken ==
    /\ last.spam = FALSE
    /\ names = << "pre-approved" >>
    /\ last.invoked = {}

\* at entry the user was past the observation window
enteredApproved == Config.FirstMessageOnly /\ last.count > Config.FirstMessagesCount

\* the message was cut by the length gate
enteredShort == ~enteredApproved /\ Len(last.msg) < Config.MinMsgLen

\* the LLM checker was called
llmConsulted == "openaiChecker.check" \in last.invoked

\* the user's counter after the call
countAfter == mapGet(approvedUsers, last.userID)

\* C1: with FirstMessageOnly set and approvedUsers[userID] > FirstMessagesCount at
\* entry, Check returns (false, [pre-approved]) and calls none of the checks.
C1_PreApprovedShortcut == checked /\ enteredApproved => shortcutTaken

C1_Witness == checked /\ enteredApproved /\ Len(stopWords) > 0 /\ classifierLoaded

\* C2: with FirstMessageOnly set, for every FirstMessagesCount and every prior
\* counter, a Check for a user given to AddApprovedUsers and not removed, reloaded
\* or reset since returns (false, [pre-approved]) and calls none of the checks.
C2_AddedThenPreApproved ==
    checked /\ Config.FirstMessageOnly /\ last.userID \in added => shortcutTaken

C2_Witness ==
    /\ checked /\ Config.FirstMessageOnly /\ last.userID \in added
    /\ Config.FirstMessagesCount = 0

\* C3 as stated: in FirstMessageOnly mode every Check that returns spam = false
\* raises the user's counter by exactly 1 and every Check that returns spam = true
\* leaves it unchanged.
C3_EveryHamCounts ==
    checked /\ Config.FirstMessageOnly =>
        countAfter = last.count + (IF last.spam THEN 0 ELSE 1)

\* C3 amended: in FirstMessageOnly mode a Check that passes the pre-approval
\* shortcut and the length gate and returns spam = false raises the user's counter
\* by exactly 1; every other Check (spam verdict, pre-approved, too short) leaves
\* it unchanged.
C3_CheckedHamCounts ==
    checked /\ Config.FirstMessageOnly =>
        countAfter = last.count
            + (IF ~last.spam /\ ~enteredApproved /\ ~enteredShort THEN 1 ELSE 0)

C3_Witness ==
    /\ checked /\ Config.FirstMessageOnly /\ ~last.spam
    /\ ~enteredApproved /\ ~enteredShort
    /\ countAfter = last.count + 1

\* the condition C4 gives for consulting the LLM checker
llmGate ==
    /\ openaiChecker
    /\ (Config.FirstMessageOnly \/ Config.FirstMessagesCount > 0)
    /\ \/ ~last.verdictBefore /\ ~Config.OpenAIVeto
       \/ last.verdictBefore /\ Config.OpenAIVeto

\* the LLM checker's results in the list are at most one
llmAtMostOnce == Cardinality({i \in 1..Len(last.cr) : last.cr[i].Name = "openai"}) <= 1

\* C4 as stated: in every Check the LLM checker is consulted iff one is attached,
\* (FirstMessageOnly or FirstMessagesCount > 0), and (the other checks say ham and
\* OpenAIVeto is false, or they say spam and OpenAIVeto is true); at most once.
C4_LLMGateEveryCheck == checked => (llmConsulted <=> llmGate) /\ llmAtMostOnce

\* C4 amended: the LLM checker is consulted iff the Check passes the pre-approval
\* shortcut and the length gate and the stated condition holds; at most once.
C4_LLMGate ==
    checked =>
        /\ llmConsulted <=> (~enteredApproved /\ ~enteredShort /\ llmGate)
        /\ llmAtMostOnce

C4_Witness == checked /\ llmConsulted /\ last.verdictBefore /\ Config.OpenAIVeto

\* C5: whenever the LLM checker is consulted its result is the last of the list
\* and Check's verdict is the LLM's; with OpenAIVeto, earlier checks saying spam
\* and the LLM saying ham, Check returns ham and, in FirstMessageOnly mode, the
\* user's counter is raised by 1.
C5_LLMVerdictWins ==
    checked /\ llmConsulted =>
        /\ last.cr[Len(last.cr)] = openaiCheck(last.llm).details
        /\ last.spam = openaiCheck(last.llm).spam
        /\ (Config.OpenAIVeto /\ last.verdictBefore /\ last.llm = "ham" =>
                /\ ~last.spam
                /\ (Config.FirstMessageOnly => countAfter = last.count + 1))

C5_Witness ==
    /\ checked /\ llmConsulted /\ Config.OpenAIVeto /\ last.verdictBefore
    /\ last.llm = "ham" /\ Config.FirstMessageOnly /\ countAfter = last.count + 1

\* C6: when the LLM checker is consulted and fails, the verdict of the earlier
\* checks stands: in veto mode an earlier spam verdict stays spam and the user's
\* counter is not raised.
C6_LLMErrorKeepsVerdict ==
    checked /\ llmConsulted /\ last.llm = "error" =>
        /\ last.spam = last.verdictBefore
        /\ (last.verdictBefore => countAfter = last.count)

\* C7: a Check not short-circuited by pre-approval whose message has fewer than
\* MinMsgLen code points calls neither the similarity check, the classifier, the
\* CAS lookup nor the LLM checker.
C7_LengthGate ==
    checked /\ enteredShort =>
        last.invoked \cap { "isSpamSimilarityHigh", "isSpamClassified", "isCasSpam",
                            "openaiChecker.check" } = {}

C7_Witness ==
    /\ checked /\ enteredShort /\ similarityEnabled /\ classifierLoaded /\ casEnabled
    /\ openaiChecker /\ countEmoji(last.msg) > 0

\* the pipeline's order
Order ==
    << "stopword", "emoji", "message length", "similarity", "classifier", "cas", "openai" >>

position(name) == CHOOSE k \in 1..Len(Order) : Order[k] = name

\* C8: the result list is [pre-approved] or a subsequence without repetition of
\* stopword, emoji, message length, similarity, classifier, cas, LLM; "message
\* length", if present, is last and none of the later results is present.
C8_PipelineOrder ==
    checked =>
        \/ names = << "pre-approved" >>
        \/ /\ \A i \in 1..Len(names) : names[i] \in Range(Order)
           /\ \A i, j \in 1..Len(names) : i < j => position(names[i]) < position(names[j])
           /\ \A i \in 1..Len(names) :
                  names[i] = "message length" =>
                      /\ i = Len(names)
                      /\ Range(names) \cap {"similarity", "classifier", "cas", "openai"} = {}

C8_Witness ==
    checked /\ names = << "stopword", "emoji", "similarity", "classifier", "cas", "openai" >>

(***************************************************************************)
(* The operations called from several goroutines, a step at a time         *)
(***************************************************************************)

\* the operations that take d.lock shared, updateSample among them
ReadLockedWithUpdates == { "Check", "ApprovedUsers", "UpdateSpam", "UpdateHam" }

\* the operations that take d.lock with RLock
ReadLocked == { "Check", "ApprovedUsers" }

\* the operations that take d.lock with Lock
WriteLocked ==
    { "Reset", "AddApprovedUsers", "RemoveApprovedUsers", "LoadSamples", "LoadStopWords",
      "LoadApprovedUsers", "UpdateSpam", "UpdateHam" } \ ReadLocked

at(p, op, where) == pc[p] = [op |-> op, at |-> where]

goto(p, op, where) == pc' = [pc EXCEPT ![p] = [op |-> op, at |-> where]]

seq == << wiring, last, added, tally >>

\* a goroutine calls an operation and comes to its d.lock.RLock() or d.lock.Lock()
Call(p) ==
    /\ ~crashed
    /\ pc[p] = notCalling
    /\ \E op \in ReadLocked \cup WriteLocked :
           /\ op \in {"UpdateSpam", "UpdateHam"} => classifier.nAllDocument < MaxDocs
           /\ goto(p, op, "lock")
    /\ UNCHANGED << detector, seq, rw, local, crashed >>

\* sync.RWMutex.RLock: granted while no writer holds the lock
RLock(p) ==
    /\ ~crashed
    /\ pc[p].at = "lock" /\ pc[p].op \in ReadLocked
    /\ ~rw.writer
    /\ rw' = [rw EXCEPT !.readerCount = @ + 1]
    /\ goto(p, pc[p].op, "body")
    /\ UNCHANGED << detector, seq, local, crashed >>

\* sync.RWMutex.Lock: granted while nobody holds the lock
Lock(p) ==
    /\ ~crashed
    /\ pc[p].at = "lock" /\ pc[p].op \in WriteLocked
    /\ ~rw.writer /\ rw.readerCount = 0
    /\ rw' = [rw EXCEPT !.writer = TRUE]
    /\ goto(p, pc[p].op, "body")
    /\ UNCHANGED << detector, seq, local, crashed >>

\* the deferred d.lock.RUnlock(), and the return
RUnlock(p) ==
    /\ ~crashed
    /\ pc[p].at = "unlock" /\ pc[p].op \in ReadLocked
    /\ rw' = [rw EXCEPT !.readerCount = @ - 1]
    /\ pc' = [pc EXCEPT ![p] = notCalling]
    /\ UNCHANGED << detector, seq, local, crashed >>

\* the deferred d.lock.Unlock(), and the return
Unlock(p) ==
    /\ ~crashed
    /\ pc[p].at = "unlock" /\ pc[p].op \in WriteLocked
    /\ rw' = [rw EXCEPT !.writer = FALSE]
    /\ pc' = [pc EXCEPT ![p] = notCalling]
    /\ UNCHANGED << detector, seq, local, crashed >>

\* Check from the pre-approval test to the verdict: the counter is bumped next, or
\* Check returns
CheckPipeline(p) ==
    /\ ~crashed
    /\ at(p, "Check", "body")
    /\ \E msg \in Msgs, userID \in Users :
           LET l == localRun(msg, userID)
           IN  \E cas \in (IF casRequested(l, userID) THEN CasOutcomes ELSE {NoCall}) :
                   \E llm \in (IF openaiAsked(casRun(l, userID, cas))
                               THEN LLMOutcomes ELSE {"none"}) :
                       IF finishRun(casRun(l, userID, cas), llm).bump
                       THEN /\ goto(p, "Check", "read")
                            /\ local' = [local EXCEPT ![p].userID = userID]
                       ELSE /\ goto(p, "Check", "unlock")
                            /\ UNCHANGED local
    /\ UNCHANGED << detector, seq, rw, crashed >>

\* d.approvedUsers[userID]++, its read
CheckCounterRead(p) ==
    /\ ~crashed
    /\ at(p, "Check", "read")
    /\ local' = [local EXCEPT ![p].counter = mapGet(approvedUsers, local[p].userID)]
    /\ goto(p, "Check", "write")
    /\ UNCHANGED << detector, seq, rw, crashed >>

\* d.approvedUsers[userID]++, its write
CheckCounterWrite(p) ==
    /\ ~crashed
    /\ at(p, "Check", "write")
    /\ approvedUsers' = mapSet(approvedUsers, local[p].userID, local[p].counter + 1)
    /\ local' = [local EXCEPT ![p] = noLocal]
    /\ goto(p, "Check", "unlock")
    /\ UNCHANGED << classifier, tokenizedSpam, stopWords, excludedTokens, seq, rw, crashed >>

\* ApprovedUsers' loop over the map
ApprovedUsersCopy(p) ==
    /\ ~crashed
    /\ at(p, "ApprovedUsers", "body")
    /\ goto(p, "ApprovedUsers", "unlock")
    /\ UNCHANGED << detector, seq, rw, local, crashed >>

ResetBody(p) ==
    /\ ~crashed
    /\ at(p, "Reset", "body")
    /\ resetState
    /\ goto(p, "Reset", "unlock")
    /\ UNCHANGED << seq, rw, local, crashed >>

AddApprovedUsersBody(p) ==
    /\ ~crashed
    /\ at(p, "AddApprovedUsers", "body")
    /\ \E ids \in IdLists : approvedUsers' = addAll(approvedUsers, ids)
    /\ goto(p, "AddApprovedUsers", "unlock")
    /\ UNCHANGED << classifier, tokenizedSpam, stopWords, excludedTokens, seq, rw, local, crashed >>

RemoveApprovedUsersBody(p) ==
    /\ ~crashed
    /\ at(p, "RemoveApprovedUsers", "body")
    /\ \E ids \in IdLists : approvedUsers' = removeAll(approvedUsers, ids)
    /\ goto(p, "RemoveApprovedUsers", "unlock")
    /\ UNCHANGED << classifier, tokenizedSpam, stopWords, excludedTokens, seq, rw, local, crashed >>

\* LoadSamples: the samples, the excluded tokens and the classifier are emptied
LoadSamplesClear(p) ==
    /\ ~crashed
    /\ at(p, "LoadSamples", "body")
    /\ tokenizedSpam' = << >>
    /\ excludedTokens' = << >>
    /\ classifier' = newClassifier
    /\ goto(p, "LoadSamples", "load")
    /\ UNCHANGED << approvedUsers, stopWords, seq, rw, local, crashed >>

\* LoadSamples: the readers are read and the classifier learns
LoadSamplesLearn(p) ==
    /\ ~crashed
    /\ at(p, "LoadSamples", "load")
    /\ \E in \in SampleSets :
           LET r == loadSamples(in.excl, in.spam, in.ham)
           IN  /\ excludedTokens' = r.excludedTokens
               /\ tokenizedSpam' = r.tokenizedSpam
               /\ classifier' = r.classifier
    /\ goto(p, "LoadSamples", "unlock")
    /\ UNCHANGED << approvedUsers, stopWords, seq, rw, local, crashed >>

LoadStopWordsBody(p) ==
    /\ ~crashed
    /\ at(p, "LoadStopWords", "body")
    /\ \E readers \in StopWordReaderLists : stopWords' = loadStopWords(readers)
    /\ goto(p, "LoadStopWords", "unlock")
    /\ UNCHANGED << classifier, tokenizedSpam, approvedUsers, excludedTokens, seq, rw, local, crashed >>

LoadApprovedUsersBody(p) ==
    /\ ~crashed
    /\ at(p, "LoadApprovedUsers", "body")
    /\ \E r \in UserReaders : approvedUsers' = loadApprovedUsers(r).approvedUsers
    /\ goto(p, "LoadApprovedUsers", "unlock")
    /\ UNCHANGED << classifier, tokenizedSpam, stopWords, excludedTokens, seq, rw, local, crashed >>

\* updateSample between taking the lock and releasing it
updateSampleBody(p, op, upd, sc) ==
    /\ ~crashed
    /\ at(p, op, "body")
    /\ \E msg \in UpdateMsgs :
           \E appendFails \in (IF upd THEN BOOLEAN ELSE {FALSE}) :
               classifier' = IF upd /\ ~appendFails THEN updateLearn(msg, sc) ELSE classifier
    /\ goto(p, op, "unlock")
    /\ UNCHANGED << tokenizedSpam, approvedUsers, stopWords, excludedTokens, seq, rw, local, crashed >>

UpdateSpamBody(p) == updateSampleBody(p, "UpdateSpam", spamSamplesUpd, "spam")

UpdateHamBody(p) == updateSampleBody(p, "UpdateHam", hamSamplesUpd, "ham")

\* what the next step of p does to the approvedUsers map
mapAccess(p) ==
    CASE at(p, "Check", "body") -> IF Config.FirstMessageOnly THEN "read" ELSE "none"
      [] at(p, "Check", "read") -> "write"
      [] at(p, "Check", "write") -> "write"
      [] at(p, "ApprovedUsers", "body") -> "read"
      [] at(p, "Reset", "body") -> "write"
      [] at(p, "AddApprovedUsers", "body") -> "write"
      [] at(p, "RemoveApprovedUsers", "body") -> "write"
      [] at(p, "LoadApprovedUsers", "body") -> "write"
      [] OTHER -> "none"

\* two goroutines are about to access the map with nothing ordering them, one to write
mapRace ==
    \E p, q \in Procs :
        p # q /\ mapAccess(p) = "write" /\ mapAccess(q) \in {"read", "write"}

\* the Go runtime detects the concurrent map access and ends the program
Fatal ==
    /\ ~crashed
    /\ mapRace
    /\ crashed' = TRUE
    /\ UNCHANGED << detector, seq, pc, rw, local >>

\* the detectors the goroutines share: every optional check on, first-message mode
ConcConfigs ==
    { c \in Configs : /\ c.FirstMessageOnly /\ ~c.OpenAIVeto
                      /\ c.MaxAllowedEmoji = 1 }

InitConc ==
    /\ Config \in { NewDetector(c) : c \in ConcConfigs }
    /\ openaiChecker = FALSE
    /\ spamSamplesUpd = TRUE
    /\ hamSamplesUpd = FALSE
    /\ classifier = newClassifier
    /\ tokenizedSpam = << >>
    /\ approvedUsers = emptyMap
    /\ stopWords = << >>
    /\ excludedTokens = << >>
    /\ last = done("none")
    /\ added = {}
    /\ pc = [p \in Procs |-> notCalling]
    /\ rw = unlocked
    /\ local = [p \in Procs |-> noLocal]
    /\ crashed = FALSE
    /\ tally = noTally
    /\ autoSave = notStarted

NextConc ==
    \/ \E p \in Procs :
           \/ Call(p)
           \/ RLock(p)
           \/ Lock(p)
           \/ RUnlock(p)
           \/ Unlock(p)
           \/ CheckPipeline(p)
           \/ CheckCounterRead(p)
           \/ CheckCounterWrite(p)
           \/ ApprovedUsersCopy(p)
           \/ ResetBody(p)
           \/ AddApprovedUsersBody(p)
           \/ RemoveApprovedUsersBody(p)
           \/ LoadSamplesClear(p)
           \/ LoadSamplesLearn(p)
           \/ LoadStopWordsBody(p)
           \/ LoadApprovedUsersBody(p)
           \/ UpdateSpamBody(p)
           \/ UpdateHamBody(p)
    \/ Fatal

SpecConc == InitConc /\ [][NextConc]_vars

(***************************************************************************)
(* Properties of the lock (specification SpecConc)                         *)
(***************************************************************************)

\* p holds the lock: it is between its lock call and its deferred unlock
inside(p) == pc[p].at \notin {"idle", "lock"}

\* the operations that change the corpus or the approved users
Mutators ==
    { "LoadSamples", "LoadStopWords", "LoadApprovedUsers", "UpdateSpam", "UpdateHam",
      "AddApprovedUsers", "RemoveApprovedUsers", "Reset" }

\* C9: while a corpus-mutating operation is inside its critical section no other
\* operation is inside its own; in particular no Check is inside while LoadSamples
\* has emptied the classifier and not yet retrained it.
C9_MutatorsExclusive ==
    \A p \in Procs :
        inside(p) /\ pc[p].op \in Mutators =>
            \A q \in Procs \ {p} : ~inside(q)

\* LoadSamples has emptied a trained classifier and not yet retrained it while the
\* other goroutine, having called Check, waits for the lock
C9_Witness ==
    \E p, q \in Procs :
        /\ at(p, "LoadSamples", "load") /\ classifier = newClassifier
        /\ at(q, "Check", "lock")
        /\ Len(stopWords) > 0 /\ DOMAIN approvedUsers # {}

\* C10: no two goroutines access the approvedUsers map at the same time with one
\* of them writing: Check's counter increment never overlaps another Check's read
\* or increment nor an ApprovedUsers iteration.
C10_NoMapRace == ~mapRace

(***************************************************************************)
(* Concurrent Checks and the approved users, with the ham verdicts counted *)
(***************************************************************************)

\* the operations that read or write d.approvedUsers
ApprovalOps ==
    { "Check", "ApprovedUsers", "AddApprovedUsers", "RemoveApprovedUsers",
      "LoadApprovedUsers", "Reset" }

\* seq without the tally
untallied == << wiring, last, added >>

\* the ham verdicts of the users whose entry is deleted start again from 0
forget(users) ==
    [tally EXCEPT !.hams = [u \in Users |-> IF u \in users THEN 0 ELSE @[u]],
                  !.given = @ \ users,
                  !.passed = @ \ users]

CallApproval(p) ==
    /\ ~crashed
    /\ pc[p] = notCalling
    /\ \E op \in ApprovalOps : goto(p, op, "lock")
    /\ UNCHANGED << detector, seq, rw, local, crashed >>

\* CheckPipeline, counting the ham verdicts of the Checks that passed the
\* pre-approval shortcut and the length gate
CheckCounted(p) ==
    /\ ~crashed
    /\ at(p, "Check", "body")
    /\ \E msg \in Msgs, userID \in Users :
           LET l == localRun(msg, userID)
           IN  \E cas \in (IF casRequested(l, userID) THEN CasOutcomes ELSE {NoCall}) :
                   \E llm \in (IF openaiAsked(casRun(l, userID, cas))
                               THEN LLMOutcomes ELSE {"none"}) :
                       LET r == finishRun(casRun(l, userID, cas), llm)
                       IN  /\ tally' = IF r.stage = "checked" /\ ~r.spam
                                       THEN [tally EXCEPT !.hams[userID] = @ + 1]
                                       ELSE IF r.stage = "pre-approved" /\ userID \notin tally.given
                                       THEN [tally EXCEPT !.passed = @ \cup {userID}]
                                       ELSE tally
                           /\ IF r.bump
                              THEN /\ goto(p, "Check", "read")
                                   /\ local' = [local EXCEPT ![p].userID = userID]
                              ELSE /\ goto(p, "Check", "unlock")
                                   /\ UNCHANGED local
    /\ UNCHANGED << detector, untallied, rw, crashed >>

ResetCounted(p) ==
    /\ ~crashed
    /\ at(p, "Reset", "body")
    /\ resetState
    /\ tally' = forget(Users)
    /\ goto(p, "Reset", "unlock")
    /\ UNCHANGED << untallied, rw, local, crashed >>

AddApprovedUsersCounted(p) ==
    /\ ~crashed
    /\ at(p, "AddApprovedUsers", "body")
    /\ \E ids \in IdLists :
           /\ approvedUsers' = addAll(approvedUsers, ids)
           /\ tally' = [tally EXCEPT !.given = @ \cup Range(ids),
                                     !.passed = @ \ Range(ids)]
    /\ goto(p, "AddApprovedUsers", "unlock")
    /\ UNCHANGED << classifier, tokenizedSpam, stopWords, excludedTokens, untallied, rw,
                    local, crashed >>

RemoveApprovedUsersCounted(p) ==
    /\ ~crashed
    /\ at(p, "RemoveApprovedUsers", "body")
    /\ \E ids \in IdLists :
           /\ approvedUsers' = removeAll(approvedUsers, ids)
           /\ tally' = forget(Range(ids))
    /\ goto(p, "RemoveApprovedUsers", "unlock")
    /\ UNCHANGED << classifier, tokenizedSpam, stopWords, excludedTokens, untallied, rw,
                    local, crashed >>

LoadApprovedUsersCounted(p) ==
    /\ ~crashed
    /\ at(p, "LoadApprovedUsers", "body")
    /\ \E r \in UserReaders :
           /\ approvedUsers' = loadApprovedUsers(r).approvedUsers
           /\ tally' = [forget(Users) EXCEPT
                            !.given = DOMAIN loadApprovedUsers(r).approvedUsers]
    /\ goto(p, "LoadApprovedUsers", "unlock")
    /\ UNCHANGED << classifier, tokenizedSpam, stopWords, excludedTokens, untallied, rw,
                    local, crashed >>

NextApproval ==
    \/ \E p \in Procs :
           \/ CallApproval(p)
           \/ RLock(p)
           \/ Lock(p)
           \/ RUnlock(p)
           \/ Unlock(p)
           \/ CheckCounted(p)
           \/ CheckCounterRead(p)
           \/ CheckCounterWrite(p)
           \/ ApprovedUsersCopy(p)
           \/ ResetCounted(p)
           \/ AddApprovedUsersCounted(p)
           \/ RemoveApprovedUsersCounted(p)
           \/ LoadApprovedUsersCounted(p)
    \/ Fatal

SpecApproval == InitConc /\ [][NextApproval]_vars

\* C11: under every interleaving, the counter of a user whose entry was not stored
\* by AddApprovedUsers or LoadApprovedUsers never exceeds the number of Checks for
\* that user that reached a ham verdict (past the pre-approval shortcut and the
\* length gate) since the entry was last absent; so such a
\* user takes the pre-approved shortcut only after FirstMessagesCount + 1 ham
\* verdicts.
C11_CounterAtMostHams ==
    \A u \in Users :
        u \notin tally.given =>
            /\ mapGet(approvedUsers, u) <= tally.hams[u]
            /\ preApproved(u) => tally.hams[u] >= Config.FirstMessagesCount + 1

\* an increment was lost: two ham verdicts, a counter of 1, nobody about to write
C11_Witness ==
    \E u \in Users :
        /\ u \notin tally.given
        /\ tally.hams[u] = 2 /\ mapGet(approvedUsers, u) = 1
        /\ \A p \in Procs : pc[p].at \notin {"read", "write"}

(***************************************************************************)
(* The goroutines under fair scheduling                                    *)
(***************************************************************************)

\* p is between its lock call and its return, and the program runs
working(p) == inside(p) /\ ~crashed

\* p takes a step
Moved(p) == pc'[p] # pc[p]

\* A goroutine inside an operation always has its next step enabled (the steps
\* between the lock call and the deferred unlock have no guard but the position),
\* so weak fairness of these steps is: p is not working for ever without moving.
\* The scheduler runs every runnable goroutine and the collaborators (readers,
\* updaters, HTTP client, LLM) return; sync.RWMutex does not let a goroutine
\* blocked in Lock or RLock be overtaken for ever.
Fairness ==
    \A p \in Procs :
        /\ []<>(~working(p)) \/ []<><<Moved(p)>>_vars
        /\ SF_vars(Lock(p))
        /\ SF_vars(RLock(p))

SpecFair == InitConc /\ [][NextConc]_vars /\ Fairness

\* C12, its safety part: the lock is free whenever no operation is inside.
C12_LockFreeWhenIdle == (\A p \in Procs : ~inside(p)) => rw = unlocked

\* C12: under fair scheduling every started operation eventually acquires the lock
\* and completes.
C12_StartedCompletes ==
    \A p \in Procs : (pc[p].at = "lock") ~> (pc[p] = notCalling)

\* C12, as far as it goes: every started operation completes unless the runtime
\* ends the program
C12_CompletesUnlessCrashed ==
    \A p \in Procs : (pc[p].at = "lock") ~> (pc[p] = notCalling \/ crashed)

(***************************************************************************)
(* Reset, then Check (specification Spec)                                  *)
(***************************************************************************)

\* the names of the results some Check returns in the current state
namesNow ==
    UNION { Range([i \in 1..Len(checkRun(msg, userID, cas, llm).cr) |->
                       checkRun(msg, userID, cas, llm).cr[i].Name]) :
            msg \in Msgs, userID \in Users, cas \in CasOutcomes, llm \in LLMOutcomes }

\* C13 as stated: a Check made right after Reset returns only results named
\* stopword, emoji, message length or cas.
C13_AfterResetNoOther ==
    last.op = "Reset" => namesNow \subseteq {"stopword", "emoji", "message length", "cas"}

\* C13 amended: a Check made right after Reset returns only results named emoji,
\* message length, cas or, when the LLM checker is consulted, openai: no
\* pre-approved, stopword, similarity or classifier result.
C13_AfterReset ==
    last.op = "Reset" =>
        /\ namesNow \subseteq {"emoji", "message length", "cas", "openai"}
        /\ "openai" \in namesNow => openaiChecker /\ countsMessages

\* Reset has returned on a detector with every check configured and an LLM attached
C13_Witness ==
    /\ last.op = "Reset"
    /\ namesNow = {"emoji", "message length", "cas", "openai"}
    /\ Config.SimilarityThreshold > 0 /\ Config.FirstMessageOnly

(***************************************************************************)
(* LoadSamples (specification Spec)                                        *)
(***************************************************************************)

\* the numbers of items the spam and the ham streams of the last LoadSamples yield
yieldedSpam == Len(tokenChan(last.input.spam))

yieldedHam == Len(tokenChan(last.input.ham))

\* C14: after LoadSamples(E, S, H) returns, whatever was loaded or learned before,
\* the classifier holds |S| + |H| documents, |S| of class spam and |H| of class
\* ham, the spam-sample list has |S| entries and the LoadResult reports |S| and |H|.
C14_LoadSamplesCounts ==
    last.op = "LoadSamples" =>
        /\ classifier.nAllDocument = yieldedSpam + yieldedHam
        /\ classifier.docsPerClass["spam"] = yieldedSpam
        /\ classifier.docsPerClass["ham"] = yieldedHam
        /\ Len(tokenizedSpam) = yieldedSpam
        /\ last.ret.SpamSamples = yieldedSpam
        /\ last.ret.HamSamples = yieldedHam

\* three spam items from two readers, the first failing after its line, one ham item
C14_Witness ==
    /\ last.op = "LoadSamples"
    /\ yieldedSpam = 3 /\ yieldedHam = 1
    /\ classifier.nAllDocument = 4

(***************************************************************************)
(* UpdateSpam and UpdateHam (specification Spec)                           *)
(***************************************************************************)

\* the step is a call of UpdateSpam or UpdateHam
updateStep == last.op = "none" /\ last'.op \in {"UpdateSpam", "UpdateHam"}

\* the updater the call uses
updaterSet == IF last'.op = "UpdateSpam" THEN spamSamplesUpd ELSE hamSamplesUpd

\* C15: UpdateSpam and UpdateHam change the classifier only if the updater is set
\* and its Append succeeded; with an unset updater the call returns nil and the
\* engine state is unchanged; when Append fails the call returns an error and the
\* classifier, spam samples, stop words, excluded tokens and approved users are
\* unchanged.
C15_UpdateOnlyOnSuccess ==
    [][ updateStep =>
            /\ ~updaterSet => ~last'.err /\ detector' = detector
            /\ last'.err => updaterSet /\ detector' = detector
            /\ detector' # detector => updaterSet /\ ~last'.err
            /\ << tokenizedSpam, approvedUsers, stopWords, excludedTokens >>'
                   = << tokenizedSpam, approvedUsers, stopWords, excludedTokens >> ]_vars

\* UpdateSpam has returned an error on a trained classifier
C15_Witness ==
    /\ last.op = "UpdateSpam" /\ last.err
    /\ classifier.nAllDocument > 0 /\ Len(stopWords) > 0 /\ DOMAIN approvedUsers # {}

(***************************************************************************)
(* The corpus alone: LoadSamples, UpdateSpam, UpdateHam and Reset by one   *)
(* caller at a time, both updaters set or unset (specification SpecCorpus) *)
(***************************************************************************)

InitCorpus ==
    /\ Config \in { NewDetector(p) :
                       p \in { c \in Configs : /\ c.MinMsgLen = 5 /\ c.MaxAllowedEmoji = 1
                                               /\ ~c.FirstMessageOnly /\ ~c.OpenAIVeto
                                               /\ c.FirstMessagesCount = 0 } }
    /\ openaiChecker = FALSE
    /\ spamSamplesUpd \in BOOLEAN
    /\ hamSamplesUpd \in BOOLEAN
    /\ classifier = newClassifier
    /\ tokenizedSpam = << >>
    /\ approvedUsers = emptyMap
    /\ stopWords = << >>
    /\ excludedTokens = << >>
    /\ last = done("none")
    /\ added = {}
    /\ pc = [p \in Procs |-> notCalling]
    /\ rw = unlocked
    /\ local = [p \in Procs |-> noLocal]
    /\ crashed = FALSE
    /\ tally = noTally
    /\ autoSave = notStarted

UpdateSpamCorpus ==
    /\ idle
    /\ classifier.nAllDocument < MaxDocs
    /\ \E msg \in SampleMsgs :
           \E appendFails \in (IF spamSamplesUpd THEN BOOLEAN ELSE {FALSE}) :
               updateSample("UpdateSpam", msg, spamSamplesUpd, "spam", appendFails)

UpdateHamCorpus ==
    /\ idle
    /\ classifier.nAllDocument < MaxDocs
    /\ \E msg \in SampleMsgs :
           \E appendFails \in (IF hamSamplesUpd THEN BOOLEAN ELSE {FALSE}) :
               updateSample("UpdateHam", msg, hamSamplesUpd, "ham", appendFails)

NextCorpus ==
    \/ LoadSamples
    \/ UpdateSpamCorpus
    \/ UpdateHamCorpus
    \/ Reset
    \/ Return

SpecCorpus == InitCorpus /\ [][NextCorpus]_vars

\* an update whose updater is set and whose Append succeeded
updateSucceeds == updateStep /\ updaterSet /\ ~last'.err

updatedClass == IF last'.op = "UpdateSpam" THEN "spam" ELSE "ham"

\* the documents the classifier holds of a class grow by n, the others stay
learnedDocs(n) ==
    /\ classifier'.nAllDocument = classifier.nAllDocument + n
    /\ \A c \in Classes :
           classifier'.docsPerClass[c] =
               classifier.docsPerClass[c] + (IF c = updatedClass THEN n ELSE 0)

\* C16 as stated: a successful UpdateSpam(msg) or UpdateHam(msg) makes the
\* classifier learn exactly one document, for every message: the documents of
\* the class and the total each grow by exactly 1, the other class is unchanged.
C16_LearnsOneDocument == [][ updateSucceeds => learnedDocs(1) ]_vars

\* C16: a successful UpdateSpam(msg) or UpdateHam(msg) makes the classifier learn
\* one document per token the sample stream yields from msg (none for an empty
\* message, one per comma-separated piece of a quoted line): the documents of the
\* class and the total each grow by that number, the other class is unchanged.
C16_LearnsYieldedDocuments ==
    [][ updateSucceeds => learnedDocs(Len(tokenChan(<< reader(last'.msg) >>))) ]_vars

\* UpdateHam of the quoted line has taken an empty classifier to two ham documents
C16_Witness ==
    /\ last.op = "UpdateHam" /\ ~last.err /\ hamSamplesUpd
    /\ last.msg = << "\"", "t", "e", "a", ",", " ", "w", "i", "n", "\"" >>
    /\ classifier.nAllDocument = 2 /\ classifier.docsPerClass["ham"] = 2

\* the tokens that have a count in some class
countedTokens == UNION { DOMAIN classifier.tokenCount[c] : c \in Classes }

\* C17: after any sequence of LoadSamples, UpdateSpam, UpdateHam and Reset the
\* classifier's total of documents is the sum of the documents per class, the total
\* of tokens of each class is the sum of that class's token counts, and the size of
\* the vocabulary is the number of distinct tokens counted in any class; when Reset
\* has just returned all of these are zero and the vocabulary is empty.
C17_ClassifierTotals ==
    /\ classifier.nAllDocument = sum(classifier.docsPerClass)
    /\ \A c \in Classes : classifier.totalTokens[c] = sum(classifier.tokenCount[c])
    /\ \A c \in Classes : \A t \in DOMAIN classifier.tokenCount[c] :
           classifier.tokenCount[c][t] >= 1
    /\ Cardinality(classifier.vocabulary) = Cardinality(countedTokens)
    /\ classifier.vocabulary = countedTokens
    /\ last.op = "Reset" =>
           /\ classifier.nAllDocument = 0
           /\ \A c \in Classes : /\ classifier.docsPerClass[c] = 0
                                 /\ classifier.totalTokens[c] = 0
                                 /\ DOMAIN classifier.tokenCount[c] = {}
           /\ classifier.vocabulary = {}

\* an update has added ham documents to loaded samples, with a token counted in
\* both classes and a token counted twice in one class
C17_Witness ==
    /\ last.op = "UpdateHam" /\ ~last.err
    /\ classifier.docsPerClass["spam"] >= 1 /\ classifier.docsPerClass["ham"] >= 2
    /\ DOMAIN classifier.tokenCount["spam"] \cap DOMAIN classifier.tokenCount["ham"] # {}
    /\ \E t \in DOMAIN classifier.tokenCount["ham"] : classifier.tokenCount["ham"][t] >= 2

(***************************************************************************)
(* The CAS check and the observation window (specification Spec)           *)
(***************************************************************************)

\* the results named cas that Check returned
casResults == SelectSeq(last.cr, LAMBDA r : r.Name = "cas")

\* the CAS check ended in one of the errors
casError ==
    \/ ~isInt64(last.userID)
    \/ last.cas.kind \in {"badRequest", "transport", "badJSON"}

\* C18: the CAS check makes neither a spam verdict nor a failure out of an error.
\* A user id that is no signed 64-bit integer (no request is sent), a request that
\* cannot be built, a failing client and an undecodable body each give one result
\* named cas with Spam = false, after which Check goes on (the LLM checker is
\* called if its condition holds, the counter is bumped on ham) and returns without
\* error; the cas result is Spam = true only when the answer decodes with ok = true.
C18_CasErrorsNeverSpam ==
    checked /\ "isCasSpam" \in last.invoked =>
        /\ Len(casResults) = 1
        /\ ~isInt64(last.userID) => last.cas = NoCall
        /\ casError => ~casResults[1].Spam
        /\ casResults[1].Spam <=>
               isInt64(last.userID) /\ last.cas.kind = "decoded" /\ last.cas.OK
        /\ ~last.err
        /\ llmConsulted <=> openaiWanted(last.verdictBefore)
        /\ countAfter = last.count + (IF bumpWanted(last.spam) THEN 1 ELSE 0)

\* the client failed on a numeric id; Check went on to the LLM checker, returned ham
\* and bumped the counter
C18_Witness ==
    /\ checked /\ last.cas.kind = "transport" /\ isInt64(last.userID)
    /\ casResults = << CheckResult("cas", FALSE, << "ffailed to send request" >>) >>
    /\ llmConsulted /\ ~last.spam /\ countAfter = last.count + 1

(***************************************************************************)
(* The observation window: the operations on the approved users called by  *)
(* one goroutine, one call at a time (specification SpecWindow)            *)
(***************************************************************************)

\* the goroutine that makes the calls
Caller == CHOOSE p \in Procs : TRUE

NextWindow ==
    \/ CallApproval(Caller)
    \/ RLock(Caller)
    \/ Lock(Caller)
    \/ RUnlock(Caller)
    \/ Unlock(Caller)
    \/ CheckCounted(Caller)
    \/ CheckCounterRead(Caller)
    \/ CheckCounterWrite(Caller)
    \/ ApprovedUsersCopy(Caller)
    \/ ResetCounted(Caller)
    \/ AddApprovedUsersCounted(Caller)
    \/ RemoveApprovedUsersCounted(Caller)
    \/ LoadApprovedUsersCounted(Caller)

SpecWindow == InitConc /\ [][NextWindow]_vars

\* no Check is between its verdict and the write of the counter
settled == \A p \in Procs : pc[p].at \notin {"read", "write"}

\* the users whose entry, if any, was made by Check alone since it was last absent
observed == Users \ tally.given

\* every Check for u would now return the pre-approved shortcut
shortcutNext(u) ==
    \A msg \in Msgs :
        LET l == localRun(msg, u)
        IN  /\ l.stage = "pre-approved"
            /\ l.invoked = {}
            /\ l.cr = << CheckResult("pre-approved", FALSE, << "user already approved" >>) >>

C20_WindowIsCount ==
    Config.FirstMessagesCount >= 1 =>
        \A u \in observed :
            /\ tally.hams[u] <= Config.FirstMessagesCount
            /\ settled /\ tally.hams[u] = Config.FirstMessagesCount => shortcutNext(u)

(***************************************************************************)
(* The application's detector (specification Spec)                         *)
(***************************************************************************)

\* the detector is one the application makes when started in paranoid mode
paranoid == Config \in { makeDetector(o) : o \in { opts \in Options : opts.ParanoidMode } }

checkStep == last.op = "none" /\ last'.op = "Check"

\* C21: started in paranoid mode the detector has FirstMessageOnly = false and
\* FirstMessagesCount = 0 whatever the first-messages-count option is, and every
\* message of every user is checked: Check never returns the pre-approved shortcut,
\* also for users stored by AddApprovedUsers or LoadApprovedUsers, and Check never
\* modifies approvedUsers.
C21_ParanoidChecksAll ==
    [][ paranoid =>
            /\ ~Config.FirstMessageOnly /\ Config.FirstMessagesCount = 0
            /\ checkStep =>
                   /\ approvedUsers' = approvedUsers
                   /\ \A i \in 1..Len(last'.cr) : last'.cr[i].Name # "pre-approved" ]_vars

\* in paranoid mode Check has run its checks for a user stored by AddApprovedUsers
\* or LoadApprovedUsers
C21_Witness ==
    /\ paranoid /\ checked /\ last.userID \in added
    /\ last.userID \in DOMAIN approvedUsers /\ last.count = 1
    /\ "isCasSpam" \in last.invoked

\* C22: ApprovedUsers returns a list of approved users: every id it returns has a
\* counter greater than FirstMessagesCount, so that in first-message mode a Check
\* for it would take the pre-approved shortcut; users still inside their
\* observation window are not returned.
C22_ReturnsApprovedOnly ==
    last.op = "ApprovedUsers" =>
        \A u \in last.ret :
            /\ mapGet(approvedUsers, u) > Config.FirstMessagesCount
            /\ Config.FirstMessageOnly => preApproved(u)

\* the results Check returned before its last one
earlier == SubSeq(last.cr, 1, Len(last.cr) - 1)

\* C23: when the length gate fires (fewer than MinMsgLen code points, user not
\* pre-approved) Check appends {message length, Spam = false, "too short"} as the
\* last result, after the stop-word and emoji results only, and returns spam = true
\* if and only if one of those results is spam.
C23_LengthGateVerdict ==
    checked /\ enteredShort =>
        /\ last.cr # << >>
        /\ last.cr[Len(last.cr)] = CheckResult("message length", FALSE, << "too short" >>)
        /\ \A i \in 1..Len(earlier) : earlier[i].Name \in {"stopword", "emoji"}
        /\ last.spam <=> \E i \in 1..Len(earlier) : earlier[i].Spam

\* the length gate fired on a message that a stop word had marked as spam, the
\* emoji result being ham
C23_Witness ==
    /\ checked /\ enteredShort /\ last.spam
    /\ Len(last.cr) = 3 /\ last.cr[1].Spam /\ ~last.cr[2].Spam

\* the results named classifier that Check returned
classifierResults == SelectSeq(last.cr, LAMBDA r : r.Name = "classifier")

\* what the classifier makes of the message Check was given
classified == classify(classifier, DOMAIN tokenize(last.msg))

\* C24: a Check that passes the pre-approval and length gates appends a classifier
\* result if and only if the classifier holds more than 0 documents, and that result
\* is spam if and only if the class is "spam", the classification is certain and
\* MinSpamProbability is 0 or the probability in percent is at least
\* MinSpamProbability; an untrained classifier contributes no result.
C24_ClassifierResult ==
    checked /\ ~enteredApproved /\ ~enteredShort =>
        /\ Len(classifierResults) = (IF classifier.nAllDocument > 0 THEN 1 ELSE 0)
        /\ ("isSpamClassified" \in last.invoked) <=> classifier.nAllDocument > 0
        /\ \A i \in 1..Len(classifierResults) :
               classifierResults[i].Spam <=>
                   /\ classified.class = "spam"
                   /\ classified.certain
                   /\ \/ Config.MinSpamProbability = 0
                      \/ 100 * classified.ws >=
                             Config.MinSpamProbability * (classified.ws + classified.wh)

\* a trained classifier has called a message spam under a probability gate
C24_Witness ==
    /\ checked /\ ~enteredApproved /\ ~enteredShort
    /\ Config.MinSpamProbability > 0
    /\ Len(classifierResults) = 1 /\ classifierResults[1].Spam

(***************************************************************************)
(* The tokenizer and the token stream (specification SpecCorpus)           *)
(***************************************************************************)

\* the token written count times, each time followed by a space
RECURSIVE repeated(_, _)
repeated(token, count) ==
    IF count = 0 THEN << >> ELSE token \o << " " >> \o repeated(token, count - 1)

\* render: each token as many times as its count, joined by single spaces
RECURSIVE render(_)
render(tokenFrequency) ==
    IF DOMAIN tokenFrequency = {} THEN << >>
    ELSE LET t    == CHOOSE t \in DOMAIN tokenFrequency : TRUE
             rest == render([u \in DOMAIN tokenFrequency \ {t} |-> tokenFrequency[u]])
             all  == repeated(t, tokenFrequency[t]) \o rest
         IN  IF rest = << >> THEN SubSeq(all, 1, Len(all) - 1) ELSE all

\* a token -> frequency map without the tokens equal to an excluded token
notExcluded(tokenFrequency) ==
    [t \in { u \in DOMAIN tokenFrequency : ~isExcludedToken(u, excludedTokens) } |->
        tokenFrequency[t]]

tokensRead(readers) ==
    tokenChan([i \in 1..Len(readers) |-> reader(readers[i].data)])

lowered(tokens) == [i \in 1..Len(tokens) |-> ToLower(tokens[i])]

\* C26: when some of the readers fail part-way, the token stream yields every token
\* read before the failure, goes on with the tokens of the following readers in
\* reader order and is closed; LoadSamples and LoadStopWords return a nil error and
\* counts equal to the numbers of tokens read.
C26_ReadErrorsEndOneReader ==
    /\ last.op = "LoadSamples" =>
           /\ ~last.err
           /\ excludedTokens = lowered(tokensRead(<< last.input.excl >>))
           /\ last.ret.ExcludedTokens = Len(tokensRead(<< last.input.excl >>))
           /\ Len(tokenizedSpam) = Len(tokensRead(last.input.spam))
           /\ last.ret.SpamSamples = Len(tokensRead(last.input.spam))
           /\ last.ret.HamSamples = Len(tokensRead(last.input.ham))
           /\ classifier.nAllDocument =
                  Len(tokensRead(last.input.spam)) + Len(tokensRead(last.input.ham))
    /\ last.op = "LoadStopWords" =>
           /\ ~last.err
           /\ stopWords = lowered(tokensRead(last.input))
           /\ last.ret.StopWords = Len(tokensRead(last.input))

\* LoadStopWords has loaded the word read from a reader before it failed and the
\* word of the reader after it
C26_Witness ==
    /\ last.op = "LoadStopWords" /\ ~last.err
    /\ Len(last.input) = 2 /\ last.input[1].err
    /\ stopWords = << << "w", "i", "n" >>, << "t", "e", "a" >> >>
    /\ last.ret.StopWords = 2

(***************************************************************************)
(* The application saving the approved users at shutdown and loading them  *)
(* at startup (specification SpecRestart)                                  *)
(***************************************************************************)

\* the ids as the store hands them to LoadApprovedUsers: one id per line
RECURSIVE storedLines(_)
storedLines(ids) ==
    IF ids = {} THEN << >>
    ELSE LET id == CHOOSE id \in ids : TRUE
         IN  id \o << "\n" >> \o storedLines(ids \ {id})

\* execute's deferred Store(detector.ApprovedUsers()) followed by the next run's
\* makeDetector (same options) and LoadApprovedUsers from the store
Restart ==
    /\ idle
    /\ approvedUsers' =
           loadApprovedUsers(reader(storedLines(DOMAIN approvedUsers))).approvedUsers
    /\ classifier' = newClassifier
    /\ tokenizedSpam' = << >>
    /\ stopWords' = << >>
    /\ excludedTokens' = << >>
    /\ last' = [done("Restart") EXCEPT !.ret = DOMAIN approvedUsers]
    /\ added' = DOMAIN approvedUsers
    /\ UNCHANGED << wiring, conc >>

NextRestart ==
    \/ Check
    \/ AddApprovedUsers
    \/ RemoveApprovedUsers
    \/ ApprovedUsers
    \/ Restart
    \/ Return

SpecRestart == Init /\ [][NextRestart]_vars

restartStep == last.op = "none" /\ last'.op = "Restart"

\* C27: saving the approved users and loading them back preserves approval: in
\* first-message mode, when the ids ApprovedUsers returns are stored and given line
\* by line to LoadApprovedUsers of a detector with the same configuration, a user
\* takes the pre-approved shortcut after the load if and only if the user took it
\* before the save.
C27_SaveLoadPreservesApproval ==
    [][ restartStep /\ Config.FirstMessageOnly =>
            \A u \in Users : preApproved(u)' <=> preApproved(u) ]_vars

(***************************************************************************)
(* The stored counters under concurrent calls (specification SpecApproval) *)
(***************************************************************************)

\* C28: in first-message mode, under any interleaving of concurrent Checks with
\* AddApprovedUsers, RemoveApprovedUsers, LoadApprovedUsers and Reset, every stored
\* counter satisfies 0 < approvedUsers[u] <= FirstMessagesCount + 1: once a user is
\* approved no Check increments the user's counter any further.
C28_CounterBounded ==
    Config.FirstMessageOnly =>
        \A u \in DOMAIN approvedUsers :
            0 < approvedUsers[u] /\ approvedUsers[u] <= Config.FirstMessagesCount + 1

(***************************************************************************)
(* The verdict and the result list (specification Spec)                    *)
(***************************************************************************)

\* some result of the returned list is spam
someSpam == \E i \in 1..Len(last.cr) : last.cr[i].Spam

\* C29: the LLM checker's verdict being the Spam flag of its result, whenever Check
\* returns spam = true some result of the returned list has Spam = true; and when
\* no LLM checker is consulted Check returns spam = true if and only if some result
\* of the list has Spam = true.
C29_VerdictHasSpamResult ==
    checked =>
        /\ last.spam => someSpam
        /\ ~llmConsulted => (last.spam <=> someSpam)

\* the LLM checker has turned a ham verdict into spam: its result is the only spam
\* result of the list
C29_Witness ==
    /\ checked /\ llmConsulted /\ last.spam /\ ~last.verdictBefore
    /\ \A i \in 1..Len(last.cr) : last.cr[i].Spam <=> last.cr[i].Name = "openai"
    /\ Len(last.cr) >= 3

(***************************************************************************)
(* Updates and the similarity check (specification SpecCorpus)             *)
(***************************************************************************)

\* an update has returned after learning
updated == last.op \in {"UpdateSpam", "UpdateHam"} /\ ~last.err /\ last.input # << >>

\* C30: UpdateSpam and UpdateHam never change the tokenized spam samples of the
\* similarity check: a successful update changes the classifier only, and the
\* similarity result of Check is the same for every message before and after it.
C30_UpdateKeepsSimilarity ==
    /\ [](updated => last.input = [m \in Msgs |-> similarityOf(m)])
    /\ [][ updateStep =>
               << tokenizedSpam, approvedUsers, stopWords, excludedTokens >>'
                   = << tokenizedSpam, approvedUsers, stopWords, excludedTokens >> ]_vars

\* after a successful UpdateSpam the classifier holds more spam documents than the
\* similarity check has samples, and the message just learned is not found similar
C30_Witness ==
    /\ last.op = "UpdateSpam" /\ ~last.err /\ spamSamplesUpd
    /\ Len(tokenizedSpam) >= 1
    /\ classifier.docsPerClass["spam"] > Len(tokenizedSpam)
    /\ similarityOf(last.msg) # << >> /\ ~similarityOf(last.msg)[1].Spam

(***************************************************************************)
(* Reloading the corpus while users are being observed: Check,             *)
(* AddApprovedUsers, the two loaders and the two updates by one caller at  *)
(* a time, both updaters set or unset (specification SpecReload)           *)
(***************************************************************************)

InitReload ==
    /\ Config \in { NewDetector(p) :
                       p \in { c \in Configs : /\ c.MinMsgLen = 5 /\ c.MaxAllowedEmoji = 1
                                               /\ c.FirstMessageOnly /\ ~c.OpenAIVeto } }
    /\ openaiChecker = FALSE
    /\ spamSamplesUpd \in BOOLEAN
    /\ hamSamplesUpd \in BOOLEAN
    /\ classifier = newClassifier
    /\ tokenizedSpam = << >>
    /\ approvedUsers = emptyMap
    /\ stopWords = << >>
    /\ excludedTokens = << >>
    /\ last = done("none")
    /\ added = {}
    /\ pc = [p \in Procs |-> notCalling]
    /\ rw = unlocked
    /\ local = [p \in Procs |-> noLocal]
    /\ crashed = FALSE
    /\ tally = noTally
    /\ autoSave = notStarted

NextReload ==
    \/ Check
    \/ AddApprovedUsers
    \/ LoadSamples
    \/ LoadStopWords
    \/ UpdateSpam
    \/ UpdateHam
    \/ Return

SpecReload == InitReload /\ [][NextReload]_vars

\* a call of the named operation is made
calls(op) == last.op = "none" /\ last'.op = op

\* C31: LoadSamples, LoadStopWords, UpdateSpam and UpdateHam leave approvedUsers
\* unchanged; LoadSamples also leaves the stop words unchanged, and LoadStopWords
\* leaves the spam samples, the excluded tokens and the classifier unchanged: no
\* reload of the corpus resets a user's message counter or approval.
C31_ReloadKeepsUsers ==
    [][ /\ calls("LoadSamples") =>
              /\ approvedUsers' = approvedUsers
              /\ stopWords' = stopWords
        /\ calls("LoadStopWords") =>
              /\ approvedUsers' = approvedUsers
              /\ tokenizedSpam' = tokenizedSpam
              /\ excludedTokens' = excludedTokens
              /\ classifier' = classifier
        /\ calls("UpdateSpam") \/ calls("UpdateHam") =>
              approvedUsers' = approvedUsers ]_vars

\* LoadSamples has replaced the corpus of a detector that holds stop words, a user
\* still under observation and an approved user
C31_Witness ==
    /\ last.op = "LoadSamples" /\ last.ret.SpamSamples > 0
    /\ tokenizedSpam # << >> /\ stopWords # << >>
    /\ hamSamplesUpd /\ classifier.nAllDocument > Len(tokenizedSpam)
    /\ \E u, v \in Users :
           /\ mapGet(approvedUsers, u) \in 1..Config.FirstMessagesCount
           /\ mapGet(approvedUsers, v) > Config.FirstMessagesCount

(***************************************************************************)
(* The application's auto-save of the approved users: the goroutine of     *)
(* autoSaveApprovedUsers beside a caller that adds and removes users       *)
(* (specification SpecAutoSave)                                            *)
(***************************************************************************)

\* execute has started the goroutine: it waits in its select
InitAutoSave ==
    /\ Config \in { NewDetector(p) :
                       p \in { c \in Configs : /\ c.MinMsgLen = 5 /\ c.MaxAllowedEmoji = 1
                                               /\ c.FirstMessageOnly /\ ~c.OpenAIVeto } }
    /\ openaiChecker = FALSE
    /\ spamSamplesUpd = TRUE
    /\ hamSamplesUpd = TRUE
    /\ classifier = newClassifier
    /\ tokenizedSpam = << >>
    /\ approvedUsers = emptyMap
    /\ stopWords = << >>
    /\ excludedTokens = << >>
    /\ last = done("none")
    /\ added = {}
    /\ pc = [p \in Procs |-> notCalling]
    /\ rw = unlocked
    /\ local = [p \in Procs |-> noLocal]
    /\ crashed = FALSE
    /\ tally = noTally
    /\ autoSave = saver("select")

\* what the goroutine leaves alone
detectorKept ==
    UNCHANGED << detector, Config, openaiChecker, spamSamplesUpd, hamSamplesUpd, last,
                 added, conc >>

\* the ticker sends on ticker.C, which holds one tick; Stop ends it
Tick ==
    /\ autoSave.at \in {"select", "store"}
    /\ ~autoSave.tick
    /\ autoSave' = [autoSave EXCEPT !.tick = TRUE]
    /\ detectorKept

\* the application cancels ctx
Cancel ==
    /\ autoSave.at \in {"select", "store"}
    /\ ~autoSave.cancelled
    /\ autoSave' = [autoSave EXCEPT !.cancelled = TRUE]
    /\ detectorKept

\* the select takes case <-ticker.C (any ready case may be taken): the ids are
\* read and compared with lastCount, and Store is called when they differ
autoSaveTick ==
    /\ autoSave.at = "select"
    /\ autoSave.tick
    /\ LET ids == DOMAIN approvedUsers
       IN  autoSave' = [autoSave EXCEPT
                            !.tick = FALSE,
                            !.ids  = ids,
                            !.prev = autoSave.out,
                            !.out  = IF Cardinality(ids) = autoSave.lastCount
                                     THEN "skip" ELSE "call",
                            !.at   = IF Cardinality(ids) = autoSave.lastCount
                                     THEN "select" ELSE "store"]
    /\ detectorKept

\* store.Store(ids) that remembers the number of ids whether or not it failed
autoSaveStoreCountsFailure ==
    /\ autoSave.at = "store"
    /\ \E fails \in BOOLEAN :
           autoSave' = [autoSave EXCEPT
                            !.at        = "select",
                            !.out       = IF fails THEN "failed" ELSE "stored",
                            !.lastCount = Cardinality(autoSave.ids),
                            !.saved     = IF fails THEN @ ELSE Cardinality(autoSave.ids)]
    /\ detectorKept

\* store.Store(ids) returns: an error leaves lastCount, success sets it to len(ids)
autoSaveStore ==
    /\ autoSave.at = "store"
    /\ \E fails \in BOOLEAN :
           autoSave' = [autoSave EXCEPT
                            !.at        = "select",
                            !.out       = IF fails THEN "failed" ELSE "stored",
                            !.lastCount = IF fails THEN @ ELSE Cardinality(autoSave.ids),
                            !.saved     = IF fails THEN @ ELSE Cardinality(autoSave.ids)]
    /\ detectorKept

\* the select takes case <-ctx.Done(): the goroutine returns and stops its ticker
autoSaveDone ==
    /\ autoSave.at = "select"
    /\ autoSave.cancelled
    /\ autoSave' = [autoSave EXCEPT !.at = "exit", !.tick = FALSE]
    /\ detectorKept

NextAutoSave ==
    \/ AddApprovedUsers
    \/ RemoveApprovedUsers
    \/ Return
    \/ Tick
    \/ Cancel
    \/ autoSaveTick
    \/ autoSaveStore
    \/ autoSaveDone

SpecAutoSave == InitAutoSave /\ [][NextAutoSave]_vars

\* the goroutine handles a tick
tickStep == autoSave.tick /\ autoSave.at = "select" /\ autoSave'.at # "exit" /\ ~autoSave'.tick

\* the goroutine's Store call returns
storeStep == autoSave.at = "store" /\ autoSave'.at = "select"

\* on a tick Store is called exactly when the number of ids differs from the number
\* stored by the last successful Store, and a failed Store is retried on the next
\* tick that finds the same list
storesOnChange ==
    /\ [](autoSave.lastCount = autoSave.saved)
    /\ [][ tickStep =>
               /\ autoSave'.ids = DOMAIN approvedUsers
               /\ autoSave'.at = "store" <=> Cardinality(autoSave'.ids) # autoSave.saved ]_vars
    /\ [][ storeStep /\ autoSave'.out = "failed" =>
               autoSave'.lastCount = autoSave.lastCount ]_vars
    /\ [][ tickStep /\ autoSave.out = "failed" /\ DOMAIN approvedUsers = autoSave.ids =>
               autoSave'.at = "store" ]_vars

\* C32 as stated: on each tick of autoSaveApprovedUsers Store is called if and only
\* if the number of ids ApprovedUsers returns differs from the number at the last
\* successful Store (0 at first); a failed Store leaves that number as it was, so
\* the next tick with the same list retries; and once the context is cancelled no
\* further Store is issued.
C32_NoStoreAfterCancel ==
    /\ storesOnChange
    /\ [][ autoSave.cancelled => ~(tickStep /\ autoSave'.at = "store") ]_vars

\* C32 amended: Store is called on a tick if and only if the number of ids differs
\* from the number at the last successful Store (0 at first); a failed Store leaves
\* that number as it was, so the next tick with the same list retries; the loop
\* exits only after the context is cancelled, and once it has exited no Store is
\* issued -- a tick taken by the select after the cancellation still stores.
C32_NoStoreAfterExit ==
    /\ storesOnChange
    /\ [][ autoSave.at # "exit" /\ autoSave'.at = "exit" => autoSave.cancelled ]_vars
    /\ [][ autoSave.at = "exit" => autoSave' = autoSave ]_vars

\* the loop has exited after a Store that failed was retried by the next tick and
\* succeeded with both users
C32_Witness ==
    /\ autoSave.at = "exit" /\ autoSave.cancelled
    /\ autoSave.prev = "failed" /\ autoSave.out = "stored"
    /\ autoSave.lastCount = 2 /\ autoSave.ids = DOMAIN approvedUsers

====
